---- MODULE Spec2Model ----
(***************************************************************************)
(* The wallet-RPC relay of swap-sdk: a host page relays JSON-RPC calls     *)
(* between an embedded iframe and the injected wallet provider over        *)
(* window.postMessage.  The module models the SwapSDK class with chunking  *)
(* (origin gate, fragment reassembly, dispatch, reply), the earlier        *)
(* SwapSDK revision that replies through sendResponse/sendError, and the   *)
(* message gate of the SwapEmbed React component.                          *)
(***************************************************************************)
EXTENDS Integers, Sequences, FiniteSets, TLC

(***************************************************************************)
(* JavaScript values.  A scalar is a one-field record naming its type, an  *)
(* array is [array |-> <<...>>], any other record is a plain object whose  *)
(* fields are its own properties.  Reading a property that is absent gives *)
(* undefined.                                                              *)
(***************************************************************************)
Num(n) == [num |-> n]
Str(s) == [str |-> s]
Undefined == [undefined |-> TRUE]
Null == [null |-> TRUE]
Arr(s) == [array |-> s]
\* a function object: typeof 'function', no JSON text, not structured-cloneable
Fn == [function |-> TRUE]

IsNumber(v) == DOMAIN v = {"num"}
IsString(v) == DOMAIN v = {"str"} \/ DOMAIN v = {"text"}
IsNullish(v) == v = Undefined \/ v = Null
IsArray(v) == DOMAIN v = {"array"}
IsObject(v) == ~IsNumber(v) /\ ~IsString(v) /\ v # Undefined /\ v # Fn

\* typeof v === 'object' && v !== null
IsNonNullObject(v) == IsObject(v) /\ v # Null

\* d.f : undefined when d has no such property (or is a scalar)
Get(d, f) == IF IsNonNullObject(d) /\ ~IsArray(d) /\ f \in DOMAIN d THEN d[f] ELSE Undefined

\* a[i] for a 0-based index
At(a, i) == IF IsArray(a) /\ i + 1 \in DOMAIN a.array THEN a.array[i + 1] ELSE Undefined

\* JavaScript truthiness of the values the model uses
Truthy(v) == ~IsNullish(v) /\ v # Str("") /\ v # Num(0)

\* String(v), as a template literal renders it
ToStr(v) ==
  IF v = Undefined THEN "undefined"
  ELSE IF v = Null THEN "null"
  ELSE IF IsNumber(v) THEN ToString(v.num)
  ELSE IF DOMAIN v = {"str"} THEN v.str
  ELSE "[object Object]"

(***************************************************************************)
(* Origins and URLs.  A host is its sequence of dot-separated labels, so   *)
(* "https://www.example.com:8443" is                                       *)
(* [scheme |-> "https", host |-> <<"www","example","com">>, port |-> "8443"]*)
(***************************************************************************)
Origin(scheme, host, port) == [scheme |-> scheme, host |-> host, port |-> port]
Url(scheme, host, port, path) == [scheme |-> scheme, host |-> host, port |-> port, path |-> path]

\* new URL(u).origin; the origin of a file: URL is the opaque origin "null"
OpaqueOrigin == Origin("null", <<>>, "")
UrlOrigin(u) == IF u.scheme = "file" THEN OpaqueOrigin ELSE Origin(u.scheme, u.host, u.port)

ExampleCom == Origin("https", <<"example", "com">>, "")
WwwExampleCom == Origin("https", <<"www", "example", "com">>, "")
HttpExampleCom == Origin("http", <<"example", "com">>, "")
HttpWwwExampleCom == Origin("http", <<"www", "example", "com">>, "")
ExampleComAltPort == Origin("https", <<"example", "com">>, "8443")
EvilCom == Origin("https", <<"evil", "com">>, "")
Localhost5173 == Origin("http", <<"localhost">>, "5173")
LocalhostEvil == Origin("https", <<"localhost", "evil", "com">>, "")
FileOrigin == Origin("file", <<>>, "")
MetapollsIo == Origin("https", <<"metapolls", "io">>, "")

UrlOf(o, path) == Url(o.scheme, o.host, o.port, path)

\* the constructor's default argument
DefaultIframeUrl == UrlOf(MetapollsIo, "/sdk")

\* origin.replace(/^https?:\/\/www\./, 'https://')
normalizeOrigin(o) ==
  IF o.scheme \in {"http", "https"} /\ Len(o.host) >= 2 /\ o.host[1] = "www"
  THEN Origin("https", Tail(o.host), o.port)
  ELSE o

\* origin.match(/^(https?:\/\/localhost|https?:\/\/127\.0\.0\.1|https?:\/\/\[::1\]|file:)/)
\* The match is a prefix match; the hosts of the model have no first label
\* that merely begins with one of the three names.
DevHostLabels == {"localhost", "127.0.0.1", "[::1]"}
matchesDevOrigin(o) ==
  \/ o.scheme \in {"http", "https"} /\ Len(o.host) >= 1 /\ o.host[1] \in DevHostLabels
  \/ o.scheme = "file"

\* The gate at the head of SwapSDK.handleMessage: TRUE iff the message goes on.
originAllowed(eventOrigin, url, env) ==
  LET expectedOrigin == UrlOrigin(url)
      normalizedExpectedOrigin == normalizeOrigin(expectedOrigin)
      normalizedEventOrigin == normalizeOrigin(eventOrigin)
  IN IF env = "production"
     THEN normalizedEventOrigin = normalizedExpectedOrigin
     ELSE ~(~matchesDevOrigin(eventOrigin) /\ normalizedEventOrigin # normalizedExpectedOrigin)

\* The gate at the head of SwapEmbedComponent.handleMessage; stateOrigin is
\* the iframeOrigin state (Null until the effect has set it).
embedOriginAllowed(eventOrigin, stateOrigin) ==
  ~(stateOrigin = Null \/ eventOrigin # stateOrigin)

(***************************************************************************)
(* Serialized text.  The JSON text of a value v is modelled as Width(v)    *)
(* units, unit i being [v |-> v, part |-> i]: a text has a length, can be  *)
(* sliced and concatenated, and parses back to v only when it is the whole *)
(* text of v.  One unit stands for MAX_CHUNK_SIZE / 6 characters of the    *)
(* real text, so that short replies fit one message and long ones do not.  *)
(***************************************************************************)
RECURSIVE SumOver(_, _)
SumOver(S, f) ==
  IF S = {} THEN 0
  ELSE LET e == CHOOSE e \in S : TRUE IN f[e] + SumOver(S \ {e}, f)

RECURSIVE Width(_)
Width(v) ==
  IF IsArray(v) THEN 1 + SumOver(DOMAIN v.array, [i \in DOMAIN v.array |-> Width(v.array[i])])
  ELSE IF IsNonNullObject(v) THEN 1 + SumOver(DOMAIN v, [f \in DOMAIN v |-> Width(v[f])])
  ELSE 1

TextOf(v) == [i \in 1..Width(v) |-> [v |-> v, part |-> i]]

\* What JSON.stringify writes for a value the replacer of safeStringify has
\* let through: the replacer marks every object it returns as seen, and for
\* an array it also marks the array's object items, which JSON.stringify
\* then hands back to the replacer one by one.  Properties holding
\* undefined are left out of the text.  The values of the model are trees
\* (no object is referenced twice), so an object is seen again only as the
\* item of an array.
RECURSIVE replaced(_)
replaced(value) ==
  IF IsArray(value)
  THEN Arr([i \in DOMAIN value.array |->
              LET item == value.array[i]
              IN IF IsNonNullObject(item) THEN Str("[Circular]")
                 ELSE IF item = Undefined \/ item = Fn THEN Null
                 ELSE item])
  ELSE IF IsNonNullObject(value)
  THEN LET keys == {key \in DOMAIN value : value[key] # Undefined /\ value[key] # Fn}
       IN [key \in keys |-> replaced(value[key])]
  ELSE value

safeStringify(data) == TextOf(replaced(data))

\* JSON.parse: [ok |-> TRUE, value |-> v] or [ok |-> FALSE] when it throws
JsonParse(text) ==
  IF text # <<>> /\ text = TextOf(text[1].v)
  THEN [ok |-> TRUE, value |-> text[1].v]
  ELSE [ok |-> FALSE]

\* 1MB chunks in the source: 6 units of text
MAX_CHUNK_SIZE == 6

\* the fragment size of the embedded page, whose code is not part of the repository
PeerChunkSize == 3

Min(a, b) == IF a < b THEN a ELSE b

TextValue(text) == [text |-> text]

\* the loop of chunkData over an already serialized text
ChunkText(jsonString, id, size) ==
  LET totalChunks == (Len(jsonString) + size - 1) \div size
  IN [j \in 1..totalChunks |->
        LET i == j - 1
            start == i * size
            end == Min(start + size, Len(jsonString))
        IN [type |-> Str("chunk"), id |-> Str(id), chunk |-> Num(i),
            total |-> Num(totalChunks),
            data |-> TextValue(SubSeq(jsonString, start + 1, end))]]

\* a chunkData that returns the whole text as its only fragment
chunkDataInOnePiece(data, id) ==
  <<[type |-> Str("chunk"), id |-> Str(id), chunk |-> Num(0), total |-> Num(1),
     data |-> TextValue(safeStringify(data))]>>

chunkData(data, id) == ChunkText(safeStringify(data), id, MAX_CHUNK_SIZE)

\* A JavaScript array with holes: a sequence whose empty slots hold Hole.
Hole == [hole |-> TRUE]

\* chunks[i] = item, for an index i >= 0
ArraySet(chunks, i, item) ==
  [k \in 1..(IF i + 1 > Len(chunks) THEN i + 1 ELSE Len(chunks)) |->
     IF k = i + 1 THEN item
     ELSE IF k <= Len(chunks) THEN chunks[k]
     ELSE Hole]

RECURSIVE Concat(_)
Concat(texts) == IF texts = <<>> THEN <<>> ELSE Head(texts) \o Concat(Tail(texts))

\* Array.prototype.sort((a, b) => a.chunk - b.chunk): holes go last
RECURSIVE InsertByChunk(_, _)
InsertByChunk(sorted, c) ==
  IF sorted = <<>> THEN <<c>>
  ELSE IF Head(sorted).chunk.num - c.chunk.num > 0 THEN <<c>> \o sorted
  ELSE <<Head(sorted)>> \o InsertByChunk(Tail(sorted), c)
RECURSIVE SortByChunk(_)
SortByChunk(items) ==
  IF items = <<>> THEN <<>>
  ELSE InsertByChunk(SortByChunk(SubSeq(items, 1, Len(items) - 1)), items[Len(items)])

IsHole(c) == c = Hole
NotHole(c) == c # Hole

assembleChunks(chunks) ==
  LET sortedChunks == SortByChunk(SelectSeq(chunks, NotHole)) \o SelectSeq(chunks, IsHole)
      \* map skips the holes and join renders them as empty strings
      jsonString == Concat([k \in 1..Len(sortedChunks) |->
                              IF IsHole(sortedChunks[k]) THEN <<>> ELSE sortedChunks[k].data.text])
      parsed == JsonParse(jsonString)
  IN IF parsed.ok THEN parsed.value
     ELSE [error |-> Str("Failed to assemble chunks"), message |-> Str("SyntaxError")]

isJsonRpcRequest(data) ==
  /\ IsObject(data)
  /\ data # Null
  /\ Get(data, "jsonrpc") = Str("2.0")
  /\ IsString(Get(data, "method"))
  /\ (Get(data, "id") # Undefined \/ Get(data, "id") # Null)

isChunkedMessage(data) ==
  /\ IsObject(data)
  /\ data # Null
  /\ Get(data, "type") = Str("chunk")
  /\ IsString(Get(data, "id"))
  /\ IsNumber(Get(data, "chunk"))
  /\ IsNumber(Get(data, "total"))
  /\ IsString(Get(data, "data"))

(***************************************************************************)
(* The state of one SwapSDK instance and of the page around it.            *)
(***************************************************************************)
VARIABLES
  nodeEnv,          \* process.env.NODE_ENV
  ethereum,         \* whether window.ethereum is injected
  iframeUrl,        \* this.iframeUrl, the constructor's argument
  provider,         \* this.provider: Null or BrowserProvider
  iframe,           \* this.iframe: Null or [src, contentWindow]
  messageHandlers,  \* this.messageHandlers: the method names that have an entry
  chunkedMessages,  \* this.chunkedMessages: message id -> array of fragments
  messageTimeout,   \* this.messageTimeout: message id -> timer handle
  timers,           \* the page's pending timers: handle -> the message id its callback names
  listeners,        \* how many 'message' listeners the relay has on window
  calls,            \* provider.send promises not yet settled, with their continuations
  inflight,         \* messages posted to the host window and not yet delivered
  posted,           \* what the relay has posted, in order: [target, message]
  dispatched,       \* what handleJsonRpcRequest has been called with, in order
  assembled,        \* the arrays assembleChunks has been called with, in order
  providerLog,      \* the provider.send calls made, in order
  responses,        \* the responses handleJsonRpcRequest has produced, each with its request
  uncaught,         \* exceptions that left a handler uncaught
  delivered,        \* the message events delivered so far
  expired,          \* message ids whose expiry timer has fired
  inits,            \* initializeSwap calls so far (those that did not throw)
  disconnects,      \* disconnect calls (unmounts of the component) so far
  iframeOrigin,     \* SwapEmbed: the iframeOrigin state
  address,          \* SwapEmbed: the address state
  rendered,         \* SwapEmbed: the state values the last render saw
  registered,       \* SwapEmbed: the state values the registered listener closes over
  payload,          \* serializer: the value handed to safeStringify / chunkData
  chunkLimit,       \* serializer: the fragment size in use
  jsonString,       \* serializer: what safeStringify returned, Undefined before the call
  outgoing,         \* serializer: the fragments chunkData returned
  collected,        \* serializer: the fragments the receiver holds, in order of arrival
  parsed            \* serializer: what assembleChunks returned, Undefined before the call

vars == <<nodeEnv, ethereum, iframeUrl, provider, iframe, messageHandlers, chunkedMessages,
          messageTimeout, timers, listeners, calls, inflight, posted, dispatched,
          assembled, providerLog, responses, uncaught, delivered, expired, inits,
          disconnects, iframeOrigin, address, rendered, registered,
          payload, chunkLimit, jsonString, outgoing, collected, parsed>>

\* the state of the relay and its page, which the serializer functions do not touch
pageVars == <<nodeEnv, ethereum, iframeUrl, provider, iframe, messageHandlers, chunkedMessages,
              messageTimeout, timers, listeners, calls, inflight, posted, dispatched,
              assembled, providerLog, responses, uncaught, delivered, expired, inits,
              disconnects, iframeOrigin, address, rendered, registered>>

\* the state of a serializer run on its own, which the relay does not have
codecVars == <<payload, chunkLimit, jsonString, outgoing, collected, parsed>>

\* no serializer run on its own is under way
CodecIdle ==
  /\ payload = Null
  /\ chunkLimit = MAX_CHUNK_SIZE
  /\ jsonString = Undefined
  /\ outgoing = <<>>
  /\ collected = <<>>
  /\ parsed = Undefined

\* the state of the SwapEmbed component, which the SwapSDK classes do not have
embedVars == <<iframeOrigin, address, rendered, registered>>

BrowserProvider == [wraps |-> Str("window.ethereum")]

\* The relay's own fields and the effects of its handlers, as one record that
\* the handlers below take and return.
Relay ==
  [provider |-> provider, iframe |-> iframe, iframeUrl |-> iframeUrl,
   messageHandlers |-> messageHandlers, chunkedMessages |-> chunkedMessages,
   messageTimeout |-> messageTimeout, timers |-> timers, calls |-> calls,
   posted |-> posted, dispatched |-> dispatched, assembled |-> assembled,
   providerLog |-> providerLog, responses |-> responses,
   uncaught |-> uncaught]

Becomes(r) ==
  /\ provider' = r.provider
  /\ iframe' = r.iframe
  /\ iframeUrl' = r.iframeUrl
  /\ messageHandlers' = r.messageHandlers
  /\ chunkedMessages' = r.chunkedMessages
  /\ messageTimeout' = r.messageTimeout
  /\ timers' = r.timers
  /\ calls' = r.calls
  /\ posted' = r.posted
  /\ dispatched' = r.dispatched
  /\ assembled' = r.assembled
  /\ providerLog' = r.providerLog
  /\ responses' = r.responses
  /\ uncaught' = r.uncaught

\* The structured clone of a message fails on a function anywhere in it.
RECURSIVE Cloneable(_)
Cloneable(v) ==
  IF v = Fn THEN FALSE
  ELSE IF IsArray(v) THEN \A i \in DOMAIN v.array : Cloneable(v.array[i])
  ELSE IF IsNonNullObject(v) THEN \A f \in DOMAIN v : Cloneable(v[f])
  ELSE TRUE

\* targetWindow.postMessage(message, targetOrigin) throws a SyntaxError when
\* targetOrigin does not parse as a URL (the opaque origin "null" does not),
\* and a DataCloneError when the message cannot be cloned.
PostThrows(message, targetOrigin) == targetOrigin = OpaqueOrigin \/ ~Cloneable(message)

Post(r, message, targetOrigin) ==
  [r EXCEPT !.posted = Append(@, [target |-> targetOrigin, message |-> message])]

RECURSIVE PostAll(_, _, _)
PostAll(r, messages, targetOrigin) ==
  IF messages = <<>> THEN r
  ELSE PostAll(Post(r, Head(messages), targetOrigin), Tail(messages), targetOrigin)

RpcError(code, message) == [code |-> Num(code), message |-> Str(message)]

\* a postResponse that posts every response whole
postResponseUnfragmented(r, response) ==
  IF r.iframe # Null /\ r.iframe.contentWindow /\ ~PostThrows(response, UrlOrigin(r.iframeUrl))
  THEN Post(r, response, UrlOrigin(r.iframeUrl))
  ELSE r

postResponse(r, response) ==
  IF r.iframe # Null /\ r.iframe.contentWindow
  THEN LET targetOrigin == UrlOrigin(r.iframeUrl)
           responseString == safeStringify(response)
           chunks == chunkData(response, "response-" \o ToStr(response.id))
           errorResponse == [id |-> response.id, jsonrpc |-> Str("2.0"),
                             error |-> RpcError(-32000,
                                         IF targetOrigin = OpaqueOrigin THEN "SyntaxError"
                                         ELSE "DataCloneError")]
           \* the first postMessage call of the try block, and whether it throws
           first == IF Len(responseString) > MAX_CHUNK_SIZE THEN chunks[1] ELSE response
       IN IF ~PostThrows(first, targetOrigin)
          THEN IF Len(responseString) > MAX_CHUNK_SIZE
               THEN PostAll(r, chunks, targetOrigin)
               ELSE Post(r, response, targetOrigin)
          \* catch: the error response is posted outside any try
          ELSE IF ~PostThrows(errorResponse, targetOrigin)
               THEN Post(r, errorResponse, targetOrigin)
               ELSE [r EXCEPT !.uncaught = @ + 1]
  ELSE r

\* Map.set, Map.delete and Map.has on a map held as a function
MapSet(m, k, v) == [x \in DOMAIN m \cup {k} |-> IF x = k THEN v ELSE m[x]]
MapDelete(m, k) == [x \in DOMAIN m \ {k} |-> m[x]]
EmptyMap == <<>>
Range(m) == {m[x] : x \in DOMAIN m}

\* setTimeout(callback, 30000): a handle no pending timer has
FreshHandle(r) ==
  LET used == DOMAIN r.timers \cup Range(r.messageTimeout)
  IN CHOOSE h \in 1..(Cardinality(used) + 1) :
       h \notin used /\ \A g \in 1..(h - 1) : g \in used

\* clearTimeout(handle)
clearTimeout(r, h) == [r EXCEPT !.timers = MapDelete(@, h)]

\* await this.provider.send(method, params): the call is made now and the
\* rest of the case runs when the promise settles.  onResolve says what
\* the continuation stores as result: the value the provider returned, or
\* null (wallet_switchEthereumChain); fallback is the message used when the
\* rejection has none.
providerSend(r, requestData, response, method, params, onResolve, fallback) ==
  [r EXCEPT !.providerLog = Append(@, [method |-> method, params |-> params]),
            !.calls = Append(@, [request |-> requestData, response |-> response,
                                 method |-> method, onResolve |-> onResolve,
                                 fallback |-> fallback])]

\* this.postResponse(response), the last statement of handleJsonRpcRequest
respond(r, requestData, response) ==
  postResponse([r EXCEPT !.responses = @ \cup {[request |-> requestData,
                                                 response |-> response]}],
               response)

\* a catch that sets the error and a null result with it
WithErrorAndResult(response, code, message) ==
  [f \in DOMAIN response \cup {"error", "result"} |->
     IF f = "error" THEN RpcError(code, message)
     ELSE IF f = "result" THEN Null
     ELSE response[f]]

WithError(response, code, message) ==
  [f \in DOMAIN response \cup {"error"} |->
     IF f = "error" THEN RpcError(code, message) ELSE response[f]]
WithResult(response, result) ==
  [f \in DOMAIN response \cup {"result"} |->
     IF f = "result" THEN result ELSE response[f]]

\* handleJsonRpcRequest up to its first await (or to its end, when the
\* request is answered without a provider call)
handleJsonRpcRequest(r0, requestData) ==
  LET r == [r0 EXCEPT !.dispatched = Append(@, requestData)]
      id == Get(requestData, "id")
      method == Get(requestData, "method")
      params == Get(requestData, "params")
      response == [id |-> id, jsonrpc |-> Str("2.0")]
      \* the outer catch
      caught(message) == respond(r, requestData, WithError(response, -32000, message))
  IN IF r.provider = Null THEN caught("Provider not initialized")
     ELSE IF method \in {Str("eth_requestAccounts"), Str("enable")}
     THEN providerSend(r, requestData, response, "eth_requestAccounts", Arr(<<>>), "value",
                       "Failed to request accounts")
     ELSE IF method = Str("eth_accounts")
     THEN providerSend(r, requestData, response, "eth_accounts", Arr(<<>>), "value", "Failed to get accounts")
     ELSE IF method = Str("eth_chainId")
     THEN providerSend(r, requestData, response, "eth_chainId", Arr(<<>>), "value", "Failed to get chain ID")
     ELSE IF method = Str("wallet_switchEthereumChain")
     THEN IF ~Truthy(params) \/ ~IsArray(params) \/ ~Truthy(Get(At(params, 0), "chainId"))
          THEN caught("Invalid parameters for wallet_switchEthereumChain")
          ELSE providerSend(r, requestData, response, "wallet_switchEthereumChain",
                            Arr(<<Get(At(params, 0), "chainId")>>), "null",
                            "Failed to switch chain")
     ELSE IF method = Str("eth_sendTransaction")
     THEN IF ~Truthy(params) \/ ~IsArray(params) \/ ~Truthy(At(params, 0))
          THEN caught("Invalid parameters for eth_sendTransaction")
          ELSE providerSend(r, requestData, response, "eth_sendTransaction", Arr(<<At(params, 0)>>),
                            "value", "Failed to send transaction")
     ELSE IF method = Str("personal_sign")
     THEN IF ~Truthy(params) \/ ~IsArray(params) \/ ~IsString(At(params, 0))
          THEN caught("Invalid parameters for personal_sign")
          ELSE providerSend(r, requestData, response, "personal_sign",
                            Arr(<<At(params, 0), At(params, 1)>>), "value",
                            "Failed to sign message")
     ELSE respond(r, requestData,
                  WithError(response, -32601, "Method not found: " \o ToStr(method)))

\* a continuation in which a rejection also abandons the other pending calls
resumeAbandoningOthers(r, call, outcome) ==
  IF outcome.ok
  THEN respond(r, call.request,
               WithResult(call.response,
                          IF call.onResolve = "null" THEN Null ELSE outcome.value))
  ELSE respond([r EXCEPT !.calls = <<>>], call.request,
               WithError(call.response, -32000,
                         IF outcome.message # "" THEN outcome.message ELSE call.fallback))

\* The rest of handleJsonRpcRequest, run when the awaited promise settles:
\* outcome is [ok |-> TRUE, value |-> v] or [ok |-> FALSE, message |-> m].
resumeJsonRpcRequest(r, call, outcome) ==
  IF outcome.ok
  THEN respond(r, call.request,
               WithResult(call.response,
                          IF call.onResolve = "null" THEN Null ELSE outcome.value))
  ELSE respond(r, call.request,
               WithError(call.response, -32000,
                         IF outcome.message # "" THEN outcome.message ELSE call.fallback))

\* the chunk branch with one buffer for all message ids
handleChunkSharedBuffer(r0, data) ==
  LET key == "shared"
      chunks == ArraySet(IF key \in DOMAIN r0.chunkedMessages THEN r0.chunkedMessages[key]
                         ELSE <<>>,
                         data.chunk.num, data)
      r1 == [r0 EXCEPT !.chunkedMessages = MapSet(@, key, chunks)]
      r2 == IF key \in DOMAIN r1.messageTimeout
            THEN [clearTimeout(r1, r1.messageTimeout[key])
                    EXCEPT !.messageTimeout = MapDelete(@, key)]
            ELSE r1
      timeout == FreshHandle(r1)
      r3 == [r2 EXCEPT !.timers = MapSet(@, timeout, key),
                       !.messageTimeout = MapSet(@, key, timeout)]
  IN IF Len(chunks) = data.total.num
     THEN LET r4 == [clearTimeout(r3, timeout) EXCEPT !.messageTimeout = MapDelete(@, key)]
              assembledData == assembleChunks(chunks)
              r5 == [r4 EXCEPT !.chunkedMessages = MapDelete(@, key),
                               !.assembled = Append(@, chunks)]
          IN handleJsonRpcRequest(r5, assembledData)
     ELSE r3

\* the chunk branch without the clearing of the existing timeout
handleChunkKeepingTimer(r0, data) ==
  LET key == data.id.str
      chunks == ArraySet(IF key \in DOMAIN r0.chunkedMessages THEN r0.chunkedMessages[key]
                         ELSE <<>>,
                         data.chunk.num, data)
      r1 == [r0 EXCEPT !.chunkedMessages = MapSet(@, key, chunks)]
      timeout == FreshHandle(r1)
      r3 == [r1 EXCEPT !.timers = MapSet(@, timeout, key),
                       !.messageTimeout = MapSet(@, key, timeout)]
  IN IF Len(chunks) = data.total.num
     THEN LET r4 == [clearTimeout(r3, timeout) EXCEPT !.messageTimeout = MapDelete(@, key)]
              assembledData == assembleChunks(chunks)
              r5 == [r4 EXCEPT !.chunkedMessages = MapDelete(@, key),
                               !.assembled = Append(@, chunks)]
          IN handleJsonRpcRequest(r5, assembledData)
     ELSE r3

\* The chunk branch of handleMessage
handleChunk(r0, data) ==
  LET key == data.id.str
      chunks == ArraySet(IF key \in DOMAIN r0.chunkedMessages THEN r0.chunkedMessages[key]
                         ELSE <<>>,
                         data.chunk.num, data)
      r1 == [r0 EXCEPT !.chunkedMessages = MapSet(@, key, chunks)]
      \* Clear existing timeout if any
      r2 == IF key \in DOMAIN r1.messageTimeout
            THEN [clearTimeout(r1, r1.messageTimeout[key])
                    EXCEPT !.messageTimeout = MapDelete(@, key)]
            ELSE r1
      \* Set new timeout: its handle is none of the live ones, nor the one just cleared
      timeout == FreshHandle(r1)
      r3 == [r2 EXCEPT !.timers = MapSet(@, timeout, key),
                       !.messageTimeout = MapSet(@, key, timeout)]
  IN \* Check if we have all chunks
     IF Len(chunks) = data.total.num
     THEN LET r4 == [clearTimeout(r3, timeout) EXCEPT !.messageTimeout = MapDelete(@, key)]
              assembledData == assembleChunks(chunks)
              r5 == [r4 EXCEPT !.chunkedMessages = MapDelete(@, key),
                               !.assembled = Append(@, chunks)]
          IN handleJsonRpcRequest(r5, assembledData)
     ELSE r3

\* handleMessage with the origin check made after the chunk branch
handleMessageChunksBeforeGate(r, event) ==
  IF isChunkedMessage(event.data) THEN handleChunk(r, event.data)
  ELSE IF ~originAllowed(event.origin, r.iframeUrl, nodeEnv) THEN r
  ELSE IF isJsonRpcRequest(event.data) THEN handleJsonRpcRequest(r, event.data)
  ELSE r

handleMessage(r, event) ==
  IF ~originAllowed(event.origin, r.iframeUrl, nodeEnv) THEN r
  ELSE IF isChunkedMessage(event.data) THEN handleChunk(r, event.data)
  ELSE IF isJsonRpcRequest(event.data) THEN handleJsonRpcRequest(r, event.data)
  ELSE r

\* a timer callback that drops every buffer
timeoutCallbackDroppingAll(r, key) ==
  [r EXCEPT !.chunkedMessages = EmptyMap,
            !.messageTimeout = MapDelete(@, key)]

\* a timer callback that forgets the timer and keeps the buffer
timeoutCallbackKeepingBuffer(r, key) ==
  [r EXCEPT !.messageTimeout = MapDelete(@, key)]

\* The callback of the expiry timer set for message id key
timeoutCallback(r, key) ==
  [r EXCEPT !.chunkedMessages = MapDelete(@, key),
            !.messageTimeout = MapDelete(@, key)]

(***************************************************************************)
(* The inputs of the model: URLs, configs, inbound messages, provider      *)
(* outcomes.                                                               *)
(***************************************************************************)
ExampleUrl == UrlOf(ExampleCom, "/swap")
FileUrl == Url("file", <<>>, "", "/swap.html")

\* the arguments the constructor is given in a run
CtorUrls == {DefaultIframeUrl, ExampleUrl, FileUrl}

\* an <iframe> element the caller hands in: attached to the document (it has a
\* contentWindow) or not
Element(attached) == [src |-> Undefined, contentWindow |-> attached]

Configs ==
  {[iframeUrl |-> ExampleUrl, token |-> Str("0xD6E4"), chainId |-> Undefined, iframe |-> f] :
     f \in {Undefined, Element(FALSE)}}

Addr == Str("0xA11ce")
Tx == [to |-> Addr, value |-> Str("0x1"), data |-> Str("0x")]

Request(id, method) == [id |-> id, jsonrpc |-> Str("2.0"), method |-> Str(method)]
RequestWith(id, method, params) ==
  [id |-> id, jsonrpc |-> Str("2.0"), method |-> Str(method), params |-> params]

PlainRequests ==
  { Request(Num(1), "eth_requestAccounts"),
    Request(Str("a"), "enable"),
    Request(Num(1), "eth_accounts"),
    Request(Num(2), "eth_chainId"),
    [jsonrpc |-> Str("2.0"), method |-> Str("eth_chainId")],
    RequestWith(Num(1), "wallet_switchEthereumChain", Arr(<<[chainId |-> Str("0x1")]>>)),
    RequestWith(Num(1), "wallet_switchEthereumChain", Arr(<<>>)),
    RequestWith(Num(2), "eth_sendTransaction", Arr(<<Tx>>)),
    Request(Num(2), "eth_sendTransaction"),
    RequestWith(Num(1), "personal_sign", Arr(<<Str("hello"), Addr>>)),
    RequestWith(Num(1), "personal_sign", [message |-> Str("hello")]),
    Request(Num(2), "foo_bar") }

\* not a JSON-RPC request and not a fragment
OtherData == { [hello |-> Str("world")] }

\* The two requests the embedded page sends in fragments, and their fragments
BigRequest == RequestWith(Num(7), "eth_sendTransaction", Arr(<<Tx>>))
SmallRequest == Request(Num(8), "eth_chainId")
Transfers == { [id |-> "m1", value |-> BigRequest], [id |-> "m2", value |-> SmallRequest] }
FragmentsOf(t) == ChunkText(TextOf(t.value), t.id, PeerChunkSize)
Fragments == UNION { Range(FragmentsOf(t)) : t \in Transfers }

Event(origin, data) == [origin |-> origin, data |-> data]
From(origin, datas) == { Event(origin, d) : d \in datas }

\* what the wallet may answer to a call of the given method
BigAccounts == Arr(<<Addr, Str("0xB0b"), Str("0xCa401"), Str("0xDa7e")>>)
Resolved(v) == [ok |-> TRUE, value |-> v]
Rejected(m) == [ok |-> FALSE, message |-> m]
Outcomes(method) ==
  { Rejected("User rejected the request"), Rejected("") } \cup
  ( IF method \in {"eth_requestAccounts", "eth_accounts"}
    THEN { Resolved(Arr(<<Addr>>)), Resolved(BigAccounts) }
    ELSE IF method = "eth_chainId" THEN { Resolved(Str("0x1")) }
    ELSE IF method = "wallet_switchEthereumChain" THEN { Resolved(Null) }
    ELSE IF method = "eth_sendTransaction" THEN { Resolved(Str("0xhash")), Resolved(Fn) }
    ELSE { Resolved(Str("0xsig")) } )

\* bounds of a run
MaxInits == 2
MaxDisconnects == 1

ChainIdRequest == Request(Num(2), "eth_chainId")
M2Fragments == Range(FragmentsOf([id |-> "m2", value |-> SmallRequest]))

\* The messages in flight at the start of a run.  From the embedded page:
\* one plain message, or one of a few pairs of requests, alone or with a
\* message of a foreign page; or the fragments of the second transfer with a
\* forged fragment of a foreign page.
PlainScenarios ==
  { From(ExampleCom, {d}) : d \in PlainRequests \cup OtherData } \cup
  { From(ExampleCom, {Request(Num(1), "eth_requestAccounts"), d}) :
      d \in {ChainIdRequest, Request(Num(2), "foo_bar")} } \cup
  { From(ExampleCom, M2Fragments) \cup {Event(EvilCom, d)} : d \in M2Fragments } \cup
  { {Event(ExampleCom, ChainIdRequest), Event(o, Request(Num(1), "eth_requestAccounts"))} :
      o \in {EvilCom, MetapollsIo, OpaqueOrigin} } \cup
  \* a page loaded from a file: URL sends with the origin "null"
  { {Event(OpaqueOrigin, RequestWith(Num(1), "wallet_switchEthereumChain", Arr(<<>>)))} }

\* The fragments of both transfers, all in flight at once
ChunkScenario == From(ExampleCom, Fragments)

\* The constructor arguments and the senders used to exercise the origin gate
GateUrls == { UrlOf(o, "/swap") : o \in {ExampleCom, WwwExampleCom, HttpExampleCom} }
GateOrigins == { ExampleCom, WwwExampleCom, HttpExampleCom, HttpWwwExampleCom,
                 ExampleComAltPort, EvilCom, Localhost5173, LocalhostEvil, FileOrigin }
GateScenarios == { {Event(o, ChainIdRequest)} : o \in GateOrigins }

World(env, eth, url, messages) ==
  [nodeEnv |-> env, ethereum |-> eth, iframeUrl |-> url, inflight |-> messages]

Envs == {"production", "development"}

\* Both modes differ in the origin gate only, which the gate scenarios
\* exercise in both; the other scenarios run in production mode.
Worlds ==
  { World("production", eth, url, S) : eth \in BOOLEAN, url \in CtorUrls,
                                       S \in PlainScenarios } \cup
  { World(env, TRUE, url, S) : env \in Envs, url \in GateUrls, S \in GateScenarios }

(***************************************************************************)
(* The specification of the SwapSDK relay.                                 *)
(***************************************************************************)
\* the state after new SwapSDK(url) in one of the worlds W
Constructed(W) ==
  /\ \E w \in W :
       /\ nodeEnv = w.nodeEnv
       /\ ethereum = w.ethereum
       /\ iframeUrl = w.iframeUrl
       /\ inflight = w.inflight
  /\ provider = Null
  /\ iframe = Null
  /\ messageHandlers = {}
  /\ chunkedMessages = EmptyMap
  /\ messageTimeout = EmptyMap
  /\ timers = EmptyMap
  /\ listeners = 0
  /\ calls = <<>>
  /\ posted = <<>>
  /\ dispatched = <<>>
  /\ assembled = <<>>
  /\ providerLog = <<>>
  /\ responses = {}
  /\ uncaught = 0
  /\ delivered = {}
  /\ expired = {}
  /\ inits = 0
  /\ disconnects = 0
  /\ iframeOrigin = Null
  /\ address = Null
  /\ rendered = Null
  /\ registered = Null

Init == Constructed(Worlds) /\ CodecIdle

\* buildIframeUrl(config)
buildIframeUrl(config) ==
  [url |-> config.iframeUrl, token |-> config.token, chainId |-> config.chainId]

\* initializeSwap(config), past initializeProvider
initializeSwap(r, config) ==
  [r EXCEPT !.provider = BrowserProvider,
            !.messageHandlers = {"eth_requestAccounts", "eth_sendTransaction"},
            !.iframe = [src |-> buildIframeUrl(config),
                        contentWindow |-> IF Truthy(config.iframe)
                                          THEN config.iframe.contentWindow
                                          ELSE TRUE]]

InitializeSwap(config) ==
  /\ inits < MaxInits
  /\ IF ~ethereum
     THEN \* initializeProvider throws: 'No Ethereum provider found'
          UNCHANGED vars
     ELSE /\ Becomes(initializeSwap(Relay, config))
          \* window.addEventListener('message', this.handleMessage.bind(this))
          /\ listeners' = listeners + 1
          /\ inits' = inits + 1
          /\ UNCHANGED <<codecVars, embedVars, nodeEnv, ethereum, inflight, delivered, expired, disconnects>>

\* a disconnect that keeps the reference to the iframe
disconnectKeepingIframe(r) ==
  [r EXCEPT !.provider = Null,
            !.messageHandlers = {},
            !.chunkedMessages = EmptyMap,
            !.timers = [h \in DOMAIN r.timers \ Range(r.messageTimeout) |-> r.timers[h]],
            !.messageTimeout = EmptyMap]

\* a disconnect that clears the timer map without cancelling the timers
disconnectLeavingTimers(r) ==
  [r EXCEPT !.iframe = Null,
            !.provider = Null,
            !.messageHandlers = {},
            !.chunkedMessages = EmptyMap,
            !.messageTimeout = EmptyMap]

\* disconnect(); removeEventListener is given a function that was never
\* registered (a new bind of handleMessage), so no listener is removed
disconnect(r) ==
  [r EXCEPT !.iframe = Null,
            !.provider = Null,
            !.messageHandlers = {},
            !.chunkedMessages = EmptyMap,
            !.timers = [h \in DOMAIN r.timers \ Range(r.messageTimeout) |-> r.timers[h]],
            !.messageTimeout = EmptyMap]

Disconnect ==
  /\ disconnects < MaxDisconnects
  /\ Becomes(disconnect(Relay))
  /\ disconnects' = disconnects + 1
  /\ UNCHANGED <<codecVars, embedVars, nodeEnv, ethereum, listeners, inflight, delivered, expired, inits>>

\* the event is handed to every registered listener in turn; the record kept
\* of a delivery names the origin the gate expected at that moment, whether
\* the event came in order, and the message ids that had a buffer
RECURSIVE dispatchEvent(_, _, _)
dispatchEvent(r, event, n) ==
  IF n = 0 THEN r ELSE dispatchEvent(handleMessage(r, event), event, n - 1)

\* a fragment is delivered in order when every fragment of its message with a
\* lower index, from the same sender, has been delivered before it
InOrder(event) ==
  isChunkedMessage(event.data) =>
    \A e \in inflight :
      ~(/\ isChunkedMessage(e.data)
        /\ e.origin = event.origin
        /\ e.data.id = event.data.id
        /\ e.data.chunk.num < event.data.chunk.num)

Deliver(event) ==
  /\ event \in inflight
  /\ inflight' = inflight \ {event}
  /\ Becomes(dispatchEvent(Relay, event, listeners))
  /\ delivered' = delivered \cup {[event |-> event, listeners |-> listeners,
                                     disconnects |-> disconnects,
                                     expected |-> UrlOrigin(iframeUrl),
                                     inOrder |-> InOrder(event),
                                     buffering |-> DOMAIN chunkedMessages]}
  /\ UNCHANGED <<codecVars, embedVars, nodeEnv, ethereum, listeners, expired, inits, disconnects>>

\* an expiry timer fires
TimerFire(h) ==
  /\ h \in DOMAIN timers
  /\ Becomes(timeoutCallback([Relay EXCEPT !.timers = MapDelete(@, h)], timers[h]))
  /\ expired' = expired \cup {timers[h]}
  /\ UNCHANGED <<codecVars, embedVars, nodeEnv, ethereum, listeners, inflight, delivered, inits, disconnects>>

\* a provider.send promise settles
Settle(i, outcome) ==
  /\ i \in 1..Len(calls)
  /\ outcome \in Outcomes(calls[i].method)
  /\ Becomes(resumeJsonRpcRequest(
               [Relay EXCEPT !.calls = SubSeq(calls, 1, i - 1) \o SubSeq(calls, i + 1, Len(calls))],
               calls[i], outcome))
  /\ UNCHANGED <<codecVars, embedVars, nodeEnv, ethereum, listeners, inflight, delivered, expired, inits, disconnects>>

AllOutcomes ==
  UNION { Outcomes(m) : m \in {"eth_requestAccounts", "eth_accounts", "eth_chainId",
                               "wallet_switchEthereumChain", "eth_sendTransaction",
                               "personal_sign"} }

Next ==
  \/ \E config \in Configs : InitializeSwap(config)
  \/ Disconnect
  \/ \E event \in inflight : Deliver(event)
  \/ \E h \in DOMAIN timers : TimerFire(h)
  \/ \E i \in 1..Len(calls) : \E outcome \in AllOutcomes : Settle(i, outcome)

Spec == Init /\ [][Next]_vars

(***************************************************************************)
(* The relay under two chunked transfers at once: every fragment of both   *)
(* is in flight at the start, the relay is initialized once and not torn   *)
(* down.                                                                   *)
(***************************************************************************)
TransferWorlds == { World("production", TRUE, ExampleUrl, ChunkScenario) }

InitTransfers == Constructed(TransferWorlds) /\ CodecIdle

NextTransfers ==
  \/ \E config \in Configs : inits = 0 /\ InitializeSwap(config)
  \/ \E event \in inflight : Deliver(event)
  \/ \E h \in DOMAIN timers : TimerFire(h)
  \/ \E i \in 1..Len(calls) : \E outcome \in AllOutcomes : Settle(i, outcome)

SpecTransfers == InitTransfers /\ [][NextTransfers]_vars

(***************************************************************************)
(* Sessions of one initializeSwap in which the embedded page posts a       *)
(* fragment a second time, or sends requests that need the wallet; a       *)
(* provider call that is pending settles sooner or later.                  *)
(***************************************************************************)
\* the sessions: the fragments of a message of two fragments, or of one
\* fragment, each posted twice (the second message event carries a mark);
\* or two requests; or a request of a page loaded from a file: URL
SessionWorlds ==
  LET Again(event) == [origin |-> event.origin, data |-> event.data, copy |-> 2]
      M3Fragments == {ChunkText(TextOf(SmallRequest), "m3", Len(TextOf(SmallRequest)))[1]}
  IN { World("production", TRUE, ExampleUrl, From(ExampleCom, F) \cup
                                               {Again(e) : e \in From(ExampleCom, F)}) :
         F \in {M2Fragments, M3Fragments} } \cup
     { World("production", TRUE, ExampleUrl,
             From(ExampleCom, {Request(Num(1), "eth_requestAccounts"), d})) :
         d \in {ChainIdRequest, RequestWith(Num(2), "eth_sendTransaction", Arr(<<Tx>>))} } \cup
     { World("production", TRUE, FileUrl,
             {Event(OpaqueOrigin, Request(Num(1), "eth_requestAccounts"))}) }

InitSessions == Constructed(SessionWorlds) /\ CodecIdle

\* a pending provider.send promise settles: its continuation runs and the
\* call is pending no more
Settles == \E i \in 1..Len(calls) : calls' = SubSeq(calls, 1, i - 1) \o SubSeq(calls, i + 1, Len(calls))

SpecSessions ==
  /\ InitSessions
  /\ [][NextTransfers]_vars
  /\ WF_calls(Settles)

(***************************************************************************)
(* Properties of the SwapSDK relay.                                        *)
(***************************************************************************)
Count(log, x) == Cardinality({k \in 1..Len(log) : log[k] = x})

\* the delivery records of the fragments of transfer t
FragmentEvents(t) == From(ExampleCom, Range(FragmentsOf(t)))
DeliveryOf(event) == {d \in delivered : d.event = event}

\* every fragment of t has been handed to handleMessage exactly once (one
\* listener), all in the same session of the relay, past the origin gate,
\* with no expiry of the id in between
AllFragmentsHandled(t) ==
  /\ \A e \in FragmentEvents(t) :
       /\ DeliveryOf(e) # {}
       /\ \A d \in DeliveryOf(e) : d.listeners = 1 /\ d.disconnects = disconnects
       /\ originAllowed(e.origin, iframeUrl, nodeEnv)
  /\ t.id \notin expired

\* C1: a chunked message whose fragments have all been delivered, in whatever
\* order, before its expiry timer fires has been dispatched exactly once,
\* as the value in-order delivery reconstructs.
C1_AnyOrderReassembles ==
  \A t \in Transfers : AllFragmentsHandled(t) => Count(dispatched, t.value) = 1

\* C2: assembleChunks is only ever handed a buffer in which every index
\* 0..total-1 holds a fragment.
C2_AssemblesOnlyCompleteBuffers ==
  \A k \in 1..Len(assembled) :
    \A j \in 1..Len(assembled[k]) : assembled[k][j] # Hole

\* the relay's own fields and everything its handlers do
relayVars == <<provider, iframe, iframeUrl, messageHandlers, chunkedMessages, messageTimeout,
               timers, calls, posted, dispatched, assembled, providerLog, responses,
               uncaught>>

\* disconnect() has run and initializeSwap() has not run since: only
\* initializeSwap sets the provider and only disconnect clears it
TornDown == disconnects > 0 /\ provider = Null

\* a step that delivers a message event
DeliverStep(event) == event \in inflight /\ inflight' = inflight \ {event} /\ delivered' # delivered

\* C3: a message delivered after disconnect() changes no reassembly buffer
\* and no timer, makes no provider call and posts nothing.
C3_NoProcessingAfterDisconnect ==
  [][(TornDown /\ \E e \in inflight : DeliverStep(e))
       => UNCHANGED <<chunkedMessages, messageTimeout, timers, providerLog, posted>>]_vars

\* C4: after disconnect() and before the next initializeSwap() no expiry
\* timer is pending.
C4_NoTimerAfterDisconnect == TornDown => DOMAIN timers = {}

\* the origin with a leading www. label of its host removed, scheme and port kept
StripWww(o) ==
  IF Len(o.host) >= 2 /\ o.host[1] = "www" THEN Origin(o.scheme, Tail(o.host), o.port) ELSE o

\* the requests that went past the gate are exactly those handed to the dispatcher
Accepted(d) == \E k \in 1..Len(dispatched) : dispatched[k] = d.event.data

PlainDeliveries == {d \in delivered : d.listeners >= 1 /\ isJsonRpcRequest(d.event.data)}

\* C5: in production mode a delivered request is let through iff its origin
\* and the expected origin are equal once a leading www. label is removed
\* from both, scheme and port kept.
C5_ProductionGateStripsWwwOnly ==
  nodeEnv = "production" =>
    \A d \in PlainDeliveries :
      Accepted(d) <=> StripWww(d.event.origin) = StripWww(UrlOrigin(iframeUrl))

\* C7: a message the origin gate rejects changes nothing of the relay: no
\* buffer, no timer, no provider call, no post.
C7_RejectedMessageIsDropped ==
  [][\A e \in inflight :
       (DeliverStep(e) /\ ~originAllowed(e.origin, iframeUrl, nodeEnv))
         => UNCHANGED relayVars]_vars

\* a forged fragment has been delivered to a listening relay and rejected
\* while the buffer of the same message id was live
C7_Witness ==
  \E d \in delivered :
    /\ d.listeners >= 1
    /\ ~originAllowed(d.event.origin, iframeUrl, nodeEnv)
    /\ isChunkedMessage(d.event.data)
    /\ d.event.data.id.str \in DOMAIN chunkedMessages

\* C9: the origin the relay trusts is the origin of the URL initializeSwap
\* loaded into the iframe.
C9_TrustedOriginIsLoadedOrigin ==
  iframe # Null => UrlOrigin(iframeUrl) = UrlOrigin(iframe.src.url)

\* the ids of the requests received so far, plain or in fragments
ReceivedIds ==
  ( {Get(d.event.data, "id") : d \in {d \in delivered : ~isChunkedMessage(d.event.data)}}
    \cup {Get(t.value, "id") : t \in {t \in Transfers : \E e \in FragmentEvents(t) :
                                                          DeliveryOf(e) # {}}} )
  \ {Undefined}

\* C10: every posted response, whole or in fragments, carries the id of a
\* request that was received.
C10_ResponsesEchoReceivedIds ==
  \A k \in 1..Len(posted) :
    LET m == posted[k].message
    IN IF isChunkedMessage(m)
       THEN \E id \in ReceivedIds : m.id = Str("response-" \o ToStr(id))
       ELSE Get(m, "id") \in ReceivedIds

\* a response has the member when the property is there and not undefined
Has(response, member) == Get(response, member) # Undefined

SupportedMethods ==
  { Str(m) : m \in {"eth_requestAccounts", "enable", "eth_accounts", "eth_chainId",
                    "wallet_switchEthereumChain", "eth_sendTransaction", "personal_sign"} }

\* C12: the response to a request whose method is not a supported one has no
\* result and the error {code: -32601, message: "Method not found: <method>"}.
C12_UnknownMethodNotFound ==
  \A x \in responses :
    LET method == Get(x.request, "method")
    IN method \notin SupportedMethods =>
         /\ ~Has(x.response, "result")
         /\ Get(x.response, "error") = RpcError(-32601, "Method not found: " \o ToStr(method))

\* the requests whose params lack what their method requires
InvalidParams(request) ==
  LET method == Get(request, "method")
      first == At(Get(request, "params"), 0)
  IN \/ method = Str("wallet_switchEthereumChain") /\ ~Truthy(Get(first, "chainId"))
     \/ method = Str("eth_sendTransaction") /\ ~Truthy(first)
     \/ method = Str("personal_sign") /\ ~IsString(first)

\* C13: a dispatched request with invalid params is answered with error code
\* -32000; and while invalid requests are all the relay has received, no
\* provider call has been made and no exception has left a handler.
C13_InvalidParamsAnswered ==
  /\ \A k \in 1..Len(dispatched) :
       InvalidParams(dispatched[k]) =>
         \E x \in responses :
           /\ x.request = dispatched[k]
           /\ ~Has(x.response, "result")
           /\ Get(Get(x.response, "error"), "code") = Num(-32000)
  /\ (\A d \in delivered : InvalidParams(d.event.data)) =>
       providerLog = <<>> /\ uncaught = 0

\* C14: a request is answered with the absent-provider error only when the
\* provider cannot be acquired, that is when the page has no window.ethereum.
C14_ProviderAcquiredOnDemand ==
  \A x \in responses :
    Get(Get(x.response, "error"), "message") = Str("Provider not initialized") => ~ethereum

\* no account request has been dispatched so far
NoAccountsRequested ==
  \A k \in 1..Len(dispatched) :
    Get(dispatched[k], "method") \notin {Str("eth_requestAccounts"), Str("enable")}

\* C15: while no account request has been dispatched, an eth_accounts request
\* is answered with the empty list as result, and no eth_accounts call has
\* been made on the provider.
C15_AccountsDefaultWithoutProviderCall ==
  NoAccountsRequested =>
    /\ \A x \in responses :
         (Get(x.request, "method") = Str("eth_accounts") /\ Has(x.response, "result"))
           => x.response.result = Arr(<<>>)
    /\ \A k \in 1..Len(providerLog) : providerLog[k].method # "eth_accounts"

\* a step in which the pending timer h fires
TimerStep(h) ==
  /\ h \in DOMAIN timers
  /\ h \notin DOMAIN timers'
  /\ inflight' = inflight
  /\ calls' = calls
  /\ inits' = inits
  /\ disconnects' = disconnects

\* the message ids of the fragments in the buffers assembled in this step
AssembledIdsOfStep ==
  UNION { { assembled'[k][j].id.str : j \in {j \in 1..Len(assembled'[k]) :
                                                 assembled'[k][j] # Hole} } :
            k \in (Len(assembled) + 1)..Len(assembled') }

\* C16: when the expiry timer of a message id fires, the buffer and the timer
\* entry of the id are removed and nothing is dispatched or posted; and no
\* fragment of an id whose timer has fired is assembled afterwards.
C16_ExpiryPurgesPartialMessage ==
  [][/\ \A h \in DOMAIN timers :
          TimerStep(h) =>
            /\ timers[h] \notin DOMAIN chunkedMessages'
            /\ timers[h] \notin DOMAIN messageTimeout'
            /\ dispatched' = dispatched
            /\ posted' = posted
     /\ AssembledIdsOfStep \cap expired = {}]_vars

\* the pending timers whose callback names the message id key
TimersOf(pending, key) == {h \in DOMAIN pending : pending[h] = key}

\* a step in which the relay, with one listener, handles a fragment its gate lets through
AcceptedFragmentStep(e) ==
  /\ DeliverStep(e)
  /\ isChunkedMessage(e.data)
  /\ listeners = 1
  /\ originAllowed(e.origin, iframeUrl, nodeEnv)

\* C17: no message id ever has two pending expiry timers; and a fragment the
\* relay handles cancels the timer its id had and, unless it completes the
\* message, leaves the id with one new timer, the one messageTimeout names.
C17_OneTimerPerIdResetByFragments ==
  [][/\ \A key \in Range(timers') : Cardinality(TimersOf(timers', key)) <= 1
     /\ \A e \in inflight :
          AcceptedFragmentStep(e) =>
            LET key == e.data.id.str
            IN /\ TimersOf(timers, key) \cap DOMAIN timers' = {}
               /\ key \in DOMAIN chunkedMessages' =>
                    /\ key \in DOMAIN messageTimeout'
                    /\ TimersOf(timers', key) = {messageTimeout'[key]}]_vars

\* two fragments of one message are buffered, the second having replaced the
\* timer the first had set, while the other message has a timer of its own
C17_Witness ==
  /\ \E key \in DOMAIN chunkedMessages :
       /\ Cardinality({j \in 1..Len(chunkedMessages[key]) : chunkedMessages[key][j] # Hole}) >= 2
       /\ Cardinality(TimersOf(timers, key)) = 1
  /\ Cardinality(DOMAIN timers) = 2

\* every fragment of t was delivered after the fragments of t with a lower index
DeliveredInOrder(t) == \A e \in FragmentEvents(t) : \A d \in DeliveryOf(e) : d.inOrder

\* the fragments a buffer holds
Stored(chunks) == {chunks[j] : j \in {j \in 1..Len(chunks) : chunks[j] # Hole}}

\* C18: a buffer only ever holds fragments of its own message id, at their
\* own indexes; an assembled buffer holds fragments of one id; and a message
\* whose fragments have all been handled in order, interleaved in whatever
\* way with the other message's, has been assembled from exactly its own
\* fragments and dispatched once, as the value that was sent.
C18_InterleavedTransfersIsolated ==
  /\ \A key \in DOMAIN chunkedMessages :
       \A j \in 1..Len(chunkedMessages[key]) :
         LET c == chunkedMessages[key][j]
         IN c # Hole => c.id.str = key /\ c.chunk.num = j - 1
  /\ \A k \in 1..Len(assembled) : Cardinality({c.id : c \in Stored(assembled[k])}) = 1
  /\ \A t \in Transfers :
       (AllFragmentsHandled(t) /\ DeliveredInOrder(t)) =>
         /\ Count(assembled, FragmentsOf(t)) = 1
         /\ Count(dispatched, t.value) = 1
         /\ \A k \in 1..Len(assembled) :
              Stored(assembled[k]) \cap Range(FragmentsOf(t)) # {}
                => assembled[k] = FragmentsOf(t)

\* both messages have been handled in order, each with a fragment that
\* arrived while the other message was being buffered, and both have been
\* dispatched
C18_Witness ==
  /\ \A t \in Transfers : AllFragmentsHandled(t) /\ DeliveredInOrder(t)
  /\ \A t \in Transfers :
       \E e \in FragmentEvents(t) : \E d \in DeliveryOf(e) :
         \E u \in Transfers \ {t} : u.id \in d.buffering
  /\ Len(assembled) = 2
  /\ \A t \in Transfers : Count(dispatched, t.value) = 1

\* a step in which a provider.send promise settles: no delivery, no timer,
\* no initializeSwap and no disconnect
SettleStep == UNCHANGED <<inflight, delivered, timers, inits, disconnects>>

\* C22: when a provider call settles, rejected or not, the step answers the
\* request of that call and no other (a rejection with error code -32000 and
\* no result), every other pending call stays pending as it was, and the
\* listener stays registered; and a request that then arrives from the
\* expected origin is dispatched whatever was answered before.
C22_ProviderFailureIsLocal ==
  [][/\ SettleStep =>
          \E i \in 1..Len(calls) :
            /\ calls' = SubSeq(calls, 1, i - 1) \o SubSeq(calls, i + 1, Len(calls))
            /\ listeners' = listeners
            /\ dispatched' = dispatched
            /\ \A x \in responses' \ responses : x.request = calls[i].request
            /\ \E x \in responses' :
                 /\ x.request = calls[i].request
                 /\ x.response.id = Get(calls[i].request, "id")
                 /\ \/ Has(x.response, "result") /\ ~Has(x.response, "error")
                    \/ /\ ~Has(x.response, "result")
                       /\ Get(Get(x.response, "error"), "code") = Num(-32000)
     /\ \A e \in inflight :
          ( /\ DeliverStep(e)
            /\ isJsonRpcRequest(e.data)
            /\ listeners >= 1
            /\ originAllowed(e.origin, iframeUrl, nodeEnv)
            /\ \E x \in responses : Has(x.response, "error") )
          => /\ Len(dispatched') = Len(dispatched) + listeners
             /\ dispatched'[Len(dispatched')] = e.data]_vars

\* the wallet rejected the call of one request and the relay answered it with
\* the error, and another request got the result of its own call
C22_Witness ==
  \E x \in responses : \E y \in responses :
    /\ x.request # y.request
    /\ Get(Get(x.response, "error"), "message") = Str("User rejected the request")
    /\ Get(Get(x.response, "error"), "code") = Num(-32000)
    /\ Has(y.response, "result")
    /\ listeners >= 1

\* C23: no failure of a post leaves postResponse: when the post of the
\* response and the post of the error response made for it have both failed,
\* nothing is thrown to the caller.
C23_PostFailureNeverPropagates == uncaught = 0

\* C24: in the state a disconnect() step leads to, the iframe and the
\* provider are null, there is no reassembly buffer, the timer map is empty
\* and no expiry timer is pending.
C24_DisconnectReleasesEverything ==
  [][disconnects' = disconnects + 1 =>
       /\ iframe' = Null
       /\ provider' = Null
       /\ chunkedMessages' = EmptyMap
       /\ messageTimeout' = EmptyMap
       /\ DOMAIN timers' = {}]_vars

\* disconnect() has just run on a relay that held the first fragment of a
\* message and the expiry timer of it
C24_Witness ==
  /\ disconnects = 1
  /\ \A d \in delivered : d.disconnects = 0
  /\ \E d \in delivered :
       /\ isChunkedMessage(d.event.data)
       /\ d.listeners >= 1
       /\ originAllowed(d.event.origin, iframeUrl, nodeEnv)
  /\ assembled = <<>>
  /\ expired = {}
  /\ iframe = Null /\ provider = Null
  /\ chunkedMessages = EmptyMap /\ messageTimeout = EmptyMap /\ DOMAIN timers = {}

\* what one call of postResponse has posted to the target, when no post fails:
\* the response itself and nothing else when its text has at most
\* MAX_CHUNK_SIZE units; otherwise two or more messages, all of them
\* fragments with the id "response-<id>", with the indexes 0, 1, ... in
\* order, which joined give the text of the response
PostedAsSpecified(new, response, target) ==
  IF Len(safeStringify(response)) <= MAX_CHUNK_SIZE
  THEN new = <<[target |-> target, message |-> response]>>
  ELSE /\ Len(new) >= 2
       /\ \A k \in 1..Len(new) :
            /\ new[k].target = target
            /\ isChunkedMessage(new[k].message)
            /\ new[k].message.id = Str("response-" \o ToStr(response.id))
            /\ new[k].message.chunk = Num(k - 1)
            /\ new[k].message.total = Num(Len(new))
       /\ Concat([k \in 1..Len(new) |-> new[k].message.data.text]) = safeStringify(response)

\* C26: when a provider call settles and the response is posted (the relay
\* has its iframe in the page, the target origin is one postMessage accepts and the
\* response can be cloned), what the step posts is the response as one
\* message iff its text has at most MAX_CHUNK_SIZE units, and otherwise
\* only its fragments, never both.
C26_FragmentsIffOversized ==
  [][( /\ SettleStep
       /\ iframe # Null
       /\ iframe.contentWindow
       /\ UrlOrigin(iframeUrl) # OpaqueOrigin ) =>
       \E i \in 1..Len(calls) : \E x \in responses' :
         /\ calls' = SubSeq(calls, 1, i - 1) \o SubSeq(calls, i + 1, Len(calls))
         /\ x.request = calls[i].request
         /\ Cloneable(x.response) =>
              PostedAsSpecified(SubSeq(posted', Len(posted) + 1, Len(posted')),
                                x.response, UrlOrigin(iframeUrl))]_vars

\* a response too long for one message has been posted in fragments, and a
\* short one whole
C26_Witness ==
  /\ \E k \in 1..Len(posted) :
       /\ isChunkedMessage(posted[k].message)
       /\ posted[k].message.id = Str("response-1")
       /\ posted[k].message.chunk = Num(1)
  /\ \E k \in 1..Len(posted) : Has(posted[k].message, "result")

\* a step that leaves the buffer and the pending timer of every message id
\* other than key as they were
OthersUntouched(key) ==
  \A other \in DOMAIN chunkedMessages \ {key} :
    /\ other \in DOMAIN chunkedMessages'
    /\ chunkedMessages'[other] = chunkedMessages[other]
    /\ TimersOf(timers', other) = TimersOf(timers, other)
    /\ other \in DOMAIN messageTimeout =>
         other \in DOMAIN messageTimeout' /\ messageTimeout'[other] = messageTimeout[other]

\* a step in which the fragments of a message are joined and the text does
\* not parse
ParseFailureStep(e) ==
  /\ AcceptedFragmentStep(e)
  /\ \E k \in (Len(dispatched) + 1)..Len(dispatched') :
       Get(dispatched'[k], "error") = Str("Failed to assemble chunks")

\* C29: a step in which the expiry timer of a message id fires, or in which
\* the joined text of a message id fails to parse, leaves the buffer and the
\* timer of every other message id as they were and the listener registered.
C29_FailureOfOneIdLeavesOthers ==
  [][/\ \A h \in DOMAIN timers :
          TimerStep(h) => OthersUntouched(timers[h]) /\ listeners' = listeners
     /\ \A e \in inflight :
          ParseFailureStep(e) => OthersUntouched(e.data.id.str) /\ listeners' = listeners]_vars

\* the joined text of one message has failed to parse, and the buffer of
\* another message is waiting with its timer
C29_Witness ==
  /\ \E k \in 1..Len(dispatched) : Get(dispatched[k], "error") = Str("Failed to assemble chunks")
  /\ \E key \in DOMAIN chunkedMessages :
       /\ Stored(chunkedMessages[key]) # {}
       /\ Cardinality(TimersOf(timers, key)) = 1
  /\ listeners = 1

\* C30: every value handleJsonRpcRequest has been called with is an object
\* with jsonrpc = '2.0', a string method and an id that is neither undefined
\* nor null.
C30_DispatchedAreWellFormed ==
  \A k \in 1..Len(dispatched) :
    /\ IsNonNullObject(dispatched[k])
    /\ Get(dispatched[k], "jsonrpc") = Str("2.0")
    /\ IsString(Get(dispatched[k], "method"))
    /\ ~IsNullish(Get(dispatched[k], "id"))

\* the posts that answer the request with the given id: the whole response,
\* or the first fragment of a response sent in fragments
PostsFor(id) ==
  {k \in 1..Len(posted) :
     LET m == posted[k].message
     IN IF isChunkedMessage(m)
        THEN m.id = Str("response-" \o ToStr(id)) /\ m.chunk = Num(0)
        ELSE Get(m, "id") = id}

\* C31: every request the origin gate has let through is dispatched at most
\* once and answered at most once, however often initializeSwap() ran on the
\* instance and whether or not disconnect() ran in between.
C31_DispatchedAndAnsweredAtMostOnce ==
  \A d \in PlainDeliveries :
    /\ Count(dispatched, d.event.data) <= 1
    /\ Cardinality(PostsFor(Get(d.event.data, "id"))) <= 1

\* C35: between two handler runs the message ids that have a reassembly
\* buffer are the ids that have a pending expiry timer, and they are the ids
\* messageTimeout has an entry for.
C35_BufferedIdsAreTimedIds ==
  /\ DOMAIN chunkedMessages = Range(timers)
  /\ DOMAIN chunkedMessages = DOMAIN messageTimeout

\* one message has expired with its buffer, the other is buffered with its
\* timer pending
C35_Witness ==
  /\ expired # {}
  /\ Cardinality(DOMAIN chunkedMessages) = 1
  /\ DOMAIN chunkedMessages \cap expired = {}
  /\ \A key \in DOMAIN chunkedMessages : Cardinality(TimersOf(timers, key)) = 1

\* C36: from disconnect() until the next initializeSwap() no step of the
\* relay posts anything: neither a provider call that settles then, nor a
\* message delivered then, nor a timer.
C36_NothingPostedWhileDisconnected ==
  [][TornDown => posted' = posted]_vars

\* the relay has been disconnected; before that it posted the answer to one
\* request, and another request, received before the disconnect, has had
\* its provider call settle with a result that was posted nowhere
C36_Witness ==
  /\ TornDown
  /\ inits = 1
  /\ posted # <<>>
  /\ \A d \in delivered : d.disconnects = 0 /\ d.listeners = 1
  /\ \E x \in responses :
       /\ Has(x.response, "result")
       /\ \E k \in 1..Len(providerLog) : providerLog[k].method = x.request.method.str
       /\ PostsFor(x.response.id) = {}

\* the deliveries of fragments the origin gate let through
FragmentDeliveries ==
  {d \in delivered : /\ isChunkedMessage(d.event.data)
                     /\ originAllowed(d.event.origin, iframeUrl, nodeEnv)}

\* C32: when the fragments of a message arrive in order, some of them a
\* second time, and no expiry timer fires, the message is dispatched once,
\* causes at most one provider call and is answered once.
C32_RedeliveryCausesNothing ==
  (/\ expired = {}
   /\ delivered = FragmentDeliveries
   /\ \A d \in delivered : d.inOrder /\ d.listeners = 1)
    => LET n == Cardinality({d.event.data.id : d \in delivered})
       IN /\ Len(dispatched) <= n
          /\ Len(providerLog) <= n
          /\ Len(posted) <= n

\* the requests of the sessions that need the wallet or are answered at once
SessionRequests ==
  { Request(Num(1), "eth_requestAccounts"), ChainIdRequest, SmallRequest,
    RequestWith(Num(2), "eth_sendTransaction", Arr(<<Tx>>)) }

\* C33: with the relay initialized and the iframe's content window there, a
\* request that has been dispatched is answered by a post to the iframe
\* sooner or later, given that its provider call settles.
C33_DispatchedIsEventuallyAnswered ==
  \A request \in SessionRequests :
    (Count(dispatched, request) > 0 /\ iframe # Null /\ iframe.contentWindow)
      ~> (PostsFor(request.id) # {})

(***************************************************************************)
(* The serializer functions on their own: safeStringify, chunkData with    *)
(* the fragments joined in order, and assembleChunks, applied to plain     *)
(* values (objects, arrays, strings, numbers; no cycles, bigints or        *)
(* errors) for a few fragment sizes.                                       *)
(***************************************************************************)
MaxChunkLimit == 3

Payloads ==
  { Num(1), Str("0x1"), Arr(<<>>), Arr(<<Addr, Str("0xB0b")>>), Arr(<<Num(1), Str("a")>>),
    [chainId |-> Str("0x1")], Tx, [tx |-> Tx, nonce |-> Num(2)],
    [jsonrpc |-> Str("2.0"), id |-> Num(1), result |-> Arr(<<Addr>>)],
    [jsonrpc |-> Str("2.0"), id |-> Num(1), error |-> [code |-> Num(-32601), message |-> Str("x")]],
    Arr(<<[chainId |-> Str("0x1")]>>), Arr(<<Arr(<<Num(1)>>), Num(2)>>),
    BigRequest, [logs |-> Arr(<<Tx, Tx>>)],
    [jsonrpc |-> Str("2.0"), id |-> Num(1), result |-> BigAccounts],
    [from |-> Tx, to |-> Tx, accounts |-> BigAccounts] }

\* JSON.stringify(v) with no replacer, for a value with no undefined or
\* function members: the text of v itself
JsonStringify(v) == TextOf(v)

InitCodec ==
  /\ Constructed({World("production", TRUE, ExampleUrl, {})})
  /\ payload \in Payloads
  /\ chunkLimit \in 1..MaxChunkLimit \cup {MAX_CHUNK_SIZE}
  /\ jsonString = Undefined
  /\ outgoing = <<>>
  /\ collected = <<>>
  /\ parsed = Undefined

\* const text = safeStringify(payload)
Stringify ==
  /\ jsonString = Undefined
  /\ jsonString' = TextValue(safeStringify(payload))
  /\ UNCHANGED <<pageVars, payload, chunkLimit, outgoing, collected, parsed>>

\* const chunks = chunkData(payload, id), with the fragment size in use
Chunk ==
  /\ outgoing = <<>>
  /\ outgoing' = IF chunkLimit = MAX_CHUNK_SIZE THEN chunkData(payload, "p")
                 ELSE ChunkText(safeStringify(payload), "p", chunkLimit)
  /\ UNCHANGED <<pageVars, payload, chunkLimit, jsonString, collected, parsed>>

\* the next fragment, in order, reaches the receiver
Collect ==
  /\ Len(collected) < Len(outgoing)
  /\ collected' = Append(collected, outgoing[Len(collected) + 1])
  /\ UNCHANGED <<pageVars, payload, chunkLimit, jsonString, outgoing, parsed>>

\* assembleChunks(chunks) once every fragment is there
Assemble ==
  /\ outgoing # <<>>
  /\ collected = outgoing
  /\ parsed = Undefined
  /\ parsed' = assembleChunks(collected)
  /\ UNCHANGED <<pageVars, payload, chunkLimit, jsonString, outgoing, collected>>

NextCodec == Stringify \/ Chunk \/ Collect \/ Assemble

SpecCodec == InitCodec /\ [][NextCodec]_vars

\* C19: whatever the plain value and the fragment size, parsing the fragments
\* of chunkData joined in order gives back a value equal to the one chunked.
C19_ChunkRoundTrip == parsed # Undefined => parsed = payload

\* C20: for a plain value safeStringify returns the text JSON.stringify
\* gives for it.
C20_PlainDataStandardJson ==
  jsonString # Undefined => jsonString = TextValue(JsonStringify(payload))

\* C25: the fragments chunkData returns for a text of len units number
\* ceil(len / limit), carry the indexes 0..n-1 in order, the same id and
\* total = n, hold limit units each but for the last, which holds at most
\* limit, and joined in index order give the text.
C25_ChunkDataPartitionsText ==
  outgoing # <<>> =>
    LET text == safeStringify(payload)
        n == Len(outgoing)
    IN /\ Len(text) > 0
       /\ (n - 1) * chunkLimit < Len(text) /\ Len(text) <= n * chunkLimit
       /\ \A j \in 1..n :
            /\ outgoing[j].type = Str("chunk")
            /\ outgoing[j].id = Str("p")
            /\ outgoing[j].chunk = Num(j - 1)
            /\ outgoing[j].total = Num(n)
            /\ Len(outgoing[j].data.text) <= chunkLimit
            /\ j < n => Len(outgoing[j].data.text) = chunkLimit
       /\ Concat([j \in 1..n |-> outgoing[j].data.text]) = text

\* chunkData has cut a text into three fragments of at most MAX_CHUNK_SIZE
\* units, the last one shorter than the others
C25_Witness ==
  /\ chunkLimit = MAX_CHUNK_SIZE
  /\ Len(outgoing) = 3
  /\ Len(outgoing[3].data.text) < MAX_CHUNK_SIZE
  /\ Len(outgoing[1].data.text) = MAX_CHUNK_SIZE

(***************************************************************************)
(* safeStringify on object graphs.  A graph is a heap of nodes and a root; *)
(* a node is an object, [keys |-> <<...>>, at |-> [key |-> member]], or an *)
(* array, [items |-> <<...>>]; a member is a reference to a node, a string *)
(* or a bigint.  Two references to one node are the same JavaScript        *)
(* object, so a heap can hold cycles and shared objects.                   *)
(***************************************************************************)
MaxNodes == 2

Ref(n) == [ref |-> n]
BigInt(n) == [bigint |-> n]

Graphs ==
  LET members == {Ref(n) : n \in 1..MaxNodes} \cup {Str("x"), BigInt(7)}
      nodes == {[keys |-> <<"a", "b">>, at |-> [a |-> x, b |-> y]] : x \in members, y \in members}
               \cup {[items |-> <<x, y>>] : x \in members, y \in members}
  IN {[root |-> Ref(1), heap |-> heap] : heap \in [1..MaxNodes -> nodes]}

\* value.map(item => ...) of the replacer: an object item already in seen
\* becomes '[Circular]', any other object item is added to seen
RECURSIVE mapItems(_, _)
mapItems(items, seen) ==
  IF items = <<>> THEN [out |-> <<>>, seen |-> seen]
  ELSE LET item == Head(items)
           isObject == DOMAIN item = {"ref"}
           rest == mapItems(Tail(items), IF isObject THEN seen \cup {item.ref} ELSE seen)
       IN [out |-> <<IF isObject /\ item.ref \in seen THEN Str("[Circular]") ELSE item>> \o rest.out,
           seen |-> rest.seen]

\* JSON.stringify's walk with the replacer of safeStringify: the value of a
\* property goes through the replacer, and the members of what the replacer
\* returned are written one after the other, each in full before the next.
\* The result is the value written and the seen set after it.
RECURSIVE serializeProperty(_, _, _)
RECURSIVE serializeItems(_, _, _)
serializeItems(heap, items, seen) ==
  IF items = <<>> THEN [out |-> <<>>, seen |-> seen]
  ELSE LET first == serializeProperty(heap, Head(items), seen)
           rest == serializeItems(heap, Tail(items), first.seen)
       IN [out |-> <<first.out>> \o rest.out, seen |-> rest.seen]

serializeProperty(heap, value, seen) ==
  IF DOMAIN value = {"bigint"} THEN [out |-> Str(ToString(value.bigint)), seen |-> seen]
  ELSE IF DOMAIN value # {"ref"} THEN [out |-> value, seen |-> seen]
  ELSE IF value.ref \in seen THEN [out |-> Str("[Circular]"), seen |-> seen]
  ELSE LET node == heap[value.ref]
           seen1 == seen \cup {value.ref}
       IN IF "items" \in DOMAIN node
          THEN LET mapped == mapItems(node.items, seen1)
                   written == serializeItems(heap, mapped.out, mapped.seen)
               IN [out |-> Arr(written.out), seen |-> written.seen]
          ELSE LET result == [k \in 1..Len(node.keys) |-> node.at[node.keys[k]]]
                   written == serializeItems(heap, result, seen1)
               IN [out |-> [key \in Range(node.keys) |->
                              written.out[CHOOSE k \in 1..Len(node.keys) : node.keys[k] = key]],
                   seen |-> written.seen]

\* the value whose JSON text safeStringify returns for the root of a graph
safeStringifyGraph(graph) == serializeProperty(graph.heap, graph.root, {}).out

InitGraphs ==
  /\ Constructed({World("production", TRUE, ExampleUrl, {})})
  /\ payload \in Graphs
  /\ chunkLimit = MAX_CHUNK_SIZE
  /\ jsonString = Undefined
  /\ outgoing = <<>>
  /\ collected = <<>>
  /\ parsed = Undefined

\* const text = safeStringify(payload)
StringifyGraph ==
  /\ jsonString = Undefined
  /\ jsonString' = TextValue(TextOf(safeStringifyGraph(payload)))
  /\ UNCHANGED <<pageVars, payload, chunkLimit, outgoing, collected, parsed>>

SpecGraphs == InitGraphs /\ [][StringifyGraph]_vars

\* The value a walk writes that puts "[Circular]" at the places where a
\* node entered earlier in the walk is reached again, and nowhere else, and
\* a bigint as its decimal string.
RECURSIVE SentinelAtRevisits(_, _, _)
RECURSIVE SentinelAtRevisitsOfAll(_, _, _)
SentinelAtRevisitsOfAll(heap, items, visited) ==
  IF items = <<>> THEN [out |-> <<>>, visited |-> visited]
  ELSE LET first == SentinelAtRevisits(heap, Head(items), visited)
           rest == SentinelAtRevisitsOfAll(heap, Tail(items), first.visited)
       IN [out |-> <<first.out>> \o rest.out, visited |-> rest.visited]

SentinelAtRevisits(heap, value, visited) ==
  IF DOMAIN value = {"bigint"} THEN [out |-> Str(ToString(value.bigint)), visited |-> visited]
  ELSE IF DOMAIN value # {"ref"} THEN [out |-> value, visited |-> visited]
  ELSE IF value.ref \in visited THEN [out |-> Str("[Circular]"), visited |-> visited]
  ELSE LET node == heap[value.ref]
           isArray == "items" \in DOMAIN node
           members == IF isArray THEN node.items
                      ELSE [k \in 1..Len(node.keys) |-> node.at[node.keys[k]]]
           written == SentinelAtRevisitsOfAll(heap, members, visited \cup {value.ref})
       IN [out |-> IF isArray THEN Arr(written.out)
                   ELSE [key \in Range(node.keys) |->
                           written.out[CHOOSE k \in 1..Len(node.keys) : node.keys[k] = key]],
           visited |-> written.visited]

\* C21: safeStringify on an object graph, cycles included, returns the text
\* that has "[Circular]" exactly where an object already visited in the call
\* is reached again, and the decimal string in place of a bigint.
C21_SentinelExactlyAtRevisits ==
  jsonString # Undefined =>
    jsonString = TextValue(TextOf(SentinelAtRevisits(payload.heap, payload.root, {}).out))

(***************************************************************************)
(* The earlier SwapSDK revision: the constructor takes no argument, looks  *)
(* for the provider and registers the message listener; the listener has   *)
(* no origin check and replies through sendResponse and sendError.  It     *)
(* has no iframeUrl field, no reassembly and no timers: those variables    *)
(* stay as they start.                                                     *)
(***************************************************************************)
\* the targetOrigin '*' of postMessage: any origin
AnyOrigin == Origin("*", <<>>, "")

legacySendResponse(r, id, result) ==
  IF r.iframe # Null /\ r.iframe.contentWindow
  THEN Post(r, [jsonrpc |-> Str("2.0"), id |-> id, result |-> result], AnyOrigin)
  ELSE r

legacySendError(r, id, message) ==
  IF r.iframe # Null /\ r.iframe.contentWindow
  THEN Post(r, [jsonrpc |-> Str("2.0"), id |-> id,
                error |-> [code |-> Num(-32000), message |-> message]], AnyOrigin)
  ELSE r

\* the try block of a handler from sendResponse on: a result that cannot be
\* cloned makes postMessage throw, and the catch answers with sendError
legacyRespond(r, id, result) ==
  IF Cloneable(result) THEN legacySendResponse(r, id, result)
  ELSE legacySendError(r, id, Str("DataCloneError"))

\* a registered handler up to its await: this.provider?.send(method, params)
\* makes the call when there is a provider and gives undefined when not
legacyHandler(r, method, params, data) ==
  IF r.provider # Null
  THEN providerSend(r, data, [id |-> Get(data, "id")], method, params, "value", "")
  ELSE legacyRespond(r, Get(data, "id"), Undefined)

\* the listener the constructor registers
legacyListener(r, event) ==
  LET data == event.data
      method == Get(data, "method")
  IN IF Get(data, "jsonrpc") = Str("2.0") /\ DOMAIN method = {"str"}
        /\ method.str \in r.messageHandlers
     THEN IF method.str = "eth_requestAccounts"
          THEN legacyHandler(r, "eth_requestAccounts", Arr(<<>>), data)
          ELSE legacyHandler(r, "eth_sendTransaction", Get(data, "params"), data)
     ELSE r

\* the rest of a handler, run when the awaited promise settles; a rejection
\* without a message gives an error whose message is undefined
legacyResume(r, call, outcome) ==
  IF outcome.ok THEN legacyRespond(r, call.response.id, outcome.value)
  ELSE legacySendError(r, call.response.id,
                       IF outcome.message # "" THEN Str(outcome.message) ELSE Undefined)

\* createIframe(config), appended to the document by initializeSwap
createIframe(config) ==
  [src |-> [url |-> config.iframeUrl, token |-> config.token, chainId |-> config.chainId],
   contentWindow |-> TRUE]

legacyInitializeSwap(r, config) ==
  [r EXCEPT !.iframe = createIframe(config),
            !.messageHandlers = {"eth_requestAccounts", "eth_sendTransaction"}]

legacyDisconnect(r) == [r EXCEPT !.iframe = Null, !.messageHandlers = {}]

LegacyWorlds == { World("production", eth, Null, S) : eth \in BOOLEAN, S \in PlainScenarios }

\* the state after new SwapSDK()
InitLegacy ==
  /\ \E w \in LegacyWorlds :
       /\ nodeEnv = w.nodeEnv
       /\ ethereum = w.ethereum
       /\ iframeUrl = w.iframeUrl
       /\ inflight = w.inflight
       /\ provider = IF w.ethereum THEN BrowserProvider ELSE Null
       \* the promise of initializeProvider is rejected and nobody handles it
       /\ uncaught = IF w.ethereum THEN 0 ELSE 1
  /\ iframe = Null
  /\ messageHandlers = {}
  /\ chunkedMessages = EmptyMap
  /\ messageTimeout = EmptyMap
  /\ timers = EmptyMap
  /\ listeners = 1
  /\ calls = <<>>
  /\ posted = <<>>
  /\ dispatched = <<>>
  /\ assembled = <<>>
  /\ providerLog = <<>>
  /\ responses = {}
  /\ CodecIdle
  /\ delivered = {}
  /\ expired = {}
  /\ inits = 0
  /\ disconnects = 0
  /\ iframeOrigin = Null
  /\ address = Null
  /\ rendered = Null
  /\ registered = Null

LegacyInitializeSwap(config) ==
  /\ inits < MaxInits
  /\ Becomes(legacyInitializeSwap(Relay, config))
  /\ inits' = inits + 1
  /\ UNCHANGED <<codecVars, embedVars, nodeEnv, ethereum, listeners, inflight, delivered, expired, disconnects>>

LegacyDisconnect ==
  /\ disconnects < MaxDisconnects
  /\ Becomes(legacyDisconnect(Relay))
  /\ disconnects' = disconnects + 1
  /\ UNCHANGED <<codecVars, embedVars, nodeEnv, ethereum, listeners, inflight, delivered, expired, inits>>

LegacyDeliver(event) ==
  /\ event \in inflight
  /\ inflight' = inflight \ {event}
  /\ Becomes(legacyListener(Relay, event))
  /\ delivered' = delivered \cup {[event |-> event, listeners |-> listeners,
                                     disconnects |-> disconnects, expected |-> Null,
                                     inOrder |-> InOrder(event)]}
  /\ UNCHANGED <<codecVars, embedVars, nodeEnv, ethereum, listeners, expired, inits, disconnects>>

LegacySettle(i, outcome) ==
  /\ i \in 1..Len(calls)
  /\ outcome \in Outcomes(calls[i].method)
  /\ Becomes(legacyResume(
               [Relay EXCEPT !.calls = SubSeq(calls, 1, i - 1) \o SubSeq(calls, i + 1, Len(calls))],
               calls[i], outcome))
  /\ UNCHANGED <<codecVars, embedVars, nodeEnv, ethereum, listeners, inflight, delivered, expired, inits, disconnects>>

NextLegacy ==
  \/ \E config \in Configs : LegacyInitializeSwap(config)
  \/ LegacyDisconnect
  \/ \E event \in inflight : LegacyDeliver(event)
  \/ \E i \in 1..Len(calls) : \E outcome \in AllOutcomes : LegacySettle(i, outcome)

SpecLegacy == InitLegacy /\ [][NextLegacy]_vars

\* the origins of the iframe URLs a relay is configured with
ConfiguredOrigins ==
  {UrlOrigin(c.iframeUrl) : c \in Configs}
    \cup (IF iframeUrl = Null THEN {} ELSE {UrlOrigin(iframeUrl)})

\* C8: every message a relay has posted was targeted at the origin of its
\* configured iframe URL, never at the wildcard.
C8_PostsOnlyToIframeOrigin ==
  \A k \in 1..Len(posted) :
    posted[k].target # AnyOrigin /\ posted[k].target \in ConfiguredOrigins

(***************************************************************************)
(* The SwapSDK of src/sdk.ts: the constructor stores the iframe URL;       *)
(* initializeSwap looks for the provider, registers the message listener   *)
(* and then takes the iframe element of the config; the listener checks    *)
(* the origin and serves eth_requestAccounts and eth_sendTransaction.  It  *)
(* has no handler map, no reassembly and no timers: those variables stay   *)
(* as they start.                                                          *)
(***************************************************************************)
\* sendError(id, error): targetOrigin is the iframe URL, which stands for its origin
sdkSendError(r, id, message) ==
  IF r.iframe # Null /\ r.iframe.contentWindow
  THEN Post(r, [id |-> id, error |-> message], UrlOrigin(r.iframeUrl))
  ELSE r

\* sendResponse(id, result) inside the try of the listener: a result that
\* cannot be cloned makes postMessage throw, and the catch answers with sendError
sdkSendResponse(r, id, result) ==
  IF r.iframe # Null /\ r.iframe.contentWindow
  THEN IF Cloneable(result)
       THEN Post(r, [id |-> id, result |-> result], UrlOrigin(r.iframeUrl))
       ELSE sdkSendError(r, id, Str("DataCloneError"))
  ELSE r

\* the listener setupMessageHandlers registers, up to its await of provider.send
sdkListener(r, event) ==
  IF event.origin # UrlOrigin(r.iframeUrl) THEN r
  ELSE LET method == Get(event.data, "method")
           params == Get(event.data, "params")
           id == Get(event.data, "id")
           seen == [r EXCEPT !.dispatched = Append(@, event.data)]
       IN IF method \in {Str("eth_requestAccounts"), Str("eth_sendTransaction")}
          THEN IF seen.provider = Null /\ ~ethereum
               THEN \* initializeProvider throws
                    sdkSendError(seen, id, Str("No Ethereum provider found"))
               ELSE providerSend([seen EXCEPT !.provider = BrowserProvider], event.data,
                                 [id |-> id], method.str,
                                 IF method = Str("eth_requestAccounts") THEN Arr(<<>>)
                                 ELSE params,
                                 "value", "")
          ELSE sdkSendError(seen, id, Str("Unsupported method: " \o ToStr(method)))

\* the event is handed to every listener the instance has registered
RECURSIVE sdkDispatchEvent(_, _, _)
sdkDispatchEvent(r, event, n) ==
  IF n = 0 THEN r ELSE sdkDispatchEvent(sdkListener(r, event), event, n - 1)

\* the rest of the listener, run when provider.send settles; a rejection
\* without a message gives an error whose message is undefined
sdkResume(r, call, outcome) ==
  IF outcome.ok THEN sdkSendResponse(r, call.response.id, outcome.value)
  ELSE sdkSendError(r, call.response.id,
                    IF outcome.message # "" THEN Str(outcome.message) ELSE Undefined)

\* initializeSwap(config) with window.ethereum there: the provider is set
\* and the listener registered before the config is looked at
sdkInitializeSwap(r, config) ==
  [r EXCEPT !.provider = BrowserProvider,
            !.iframe = IF Truthy(config.iframe) THEN config.iframe ELSE @]

sdkDisconnect(r) == [r EXCEPT !.iframe = Null, !.provider = Null]

\* the configs of the callers: with no iframe element, as in the README, or
\* with an element, in the document or not
SdkConfigs == Configs \cup {[iframeUrl |-> ExampleUrl, token |-> Str("0xD6E4"),
                             chainId |-> Undefined, iframe |-> Element(TRUE)]}

\* the state after new SwapSDK(url), in a page with or without a wallet
InitSdk ==
  /\ Constructed({ World("production", eth, ExampleUrl, S) : eth \in BOOLEAN,
                                                              S \in PlainScenarios })
  /\ CodecIdle

\* a call of initializeSwap, failed or not
SdkInitializeSwap(config) ==
  /\ inits < MaxInits
  /\ inits' = inits + 1
  /\ IF ~ethereum
     THEN \* initializeProvider throws: 'No Ethereum provider found'
          UNCHANGED <<relayVars, listeners>>
     ELSE /\ Becomes(sdkInitializeSwap(Relay, config))
          \* window.addEventListener('message', async (event) => ...)
          /\ listeners' = listeners + 1
  /\ UNCHANGED <<codecVars, embedVars, nodeEnv, ethereum, inflight, delivered, expired, disconnects>>

SdkDisconnect ==
  /\ disconnects < MaxDisconnects
  /\ Becomes(sdkDisconnect(Relay))
  /\ disconnects' = disconnects + 1
  /\ UNCHANGED <<codecVars, embedVars, nodeEnv, ethereum, listeners, inflight, delivered, expired, inits>>

SdkDeliver(event) ==
  /\ event \in inflight
  /\ inflight' = inflight \ {event}
  /\ Becomes(sdkDispatchEvent(Relay, event, listeners))
  /\ delivered' = delivered \cup {[event |-> event, listeners |-> listeners,
                                     disconnects |-> disconnects,
                                     expected |-> UrlOrigin(iframeUrl),
                                     inOrder |-> InOrder(event),
                                     buffering |-> {}]}
  /\ UNCHANGED <<codecVars, embedVars, nodeEnv, ethereum, listeners, expired, inits, disconnects>>

SdkSettle(i, outcome) ==
  /\ i \in 1..Len(calls)
  /\ outcome \in Outcomes(calls[i].method)
  /\ Becomes(sdkResume(
               [Relay EXCEPT !.calls = SubSeq(calls, 1, i - 1) \o SubSeq(calls, i + 1, Len(calls))],
               calls[i], outcome))
  /\ UNCHANGED <<codecVars, embedVars, nodeEnv, ethereum, listeners, inflight, delivered, expired, inits, disconnects>>

NextSdk ==
  \/ \E config \in SdkConfigs : SdkInitializeSwap(config)
  \/ SdkDisconnect
  \/ \E event \in inflight : SdkDeliver(event)
  \/ \E i \in 1..Len(calls) : \E outcome \in AllOutcomes : SdkSettle(i, outcome)

SpecSdk == InitSdk /\ [][NextSdk]_vars

\* C34: after calls of initializeSwap that all failed (no wallet provider in
\* the page, or no iframe element in the config) the SDK is as the
\* constructor left it: no listener is registered, no provider is held, and
\* no message has led to a call of the wallet provider.
C34_FailedInitializeLeavesNothing ==
  (inits > 0 /\ disconnects = 0 /\ iframe = Null)
    => (listeners = 0 /\ provider = Null /\ providerLog = <<>>)

(***************************************************************************)
(* The SwapEmbed React component.  Its state values live in iframeOrigin,  *)
(* provider and address; a render sees the values of that moment, and the  *)
(* handleMessage, handleJsonRpcRequest and postResponse it creates close   *)
(* over them.  The listener effect registers the handleMessage of the last *)
(* render.  The reassembly buffers and timer handles are refs, shared by   *)
(* every render.                                                           *)
(***************************************************************************)
Closure(origin, prov, addr) == [iframeOrigin |-> origin, provider |-> prov, address |-> addr]

embedPostResponse(r, closure, response) ==
  IF r.iframe # Null /\ r.iframe.contentWindow /\ Truthy(closure.iframeOrigin)
  THEN LET targetOrigin == closure.iframeOrigin
           responseString == safeStringify(response)
           chunks == chunkData(response, "response-" \o ToStr(response.id))
           errorResponse == [id |-> response.id, jsonrpc |-> Str("2.0"),
                             error |-> RpcError(-32000,
                                         IF targetOrigin = OpaqueOrigin THEN "SyntaxError"
                                         ELSE "DataCloneError")]
           first == IF Len(responseString) > MAX_CHUNK_SIZE THEN chunks[1] ELSE response
       IN IF ~PostThrows(first, targetOrigin)
          THEN IF Len(responseString) > MAX_CHUNK_SIZE
               THEN PostAll(r, chunks, targetOrigin)
               ELSE Post(r, response, targetOrigin)
          ELSE IF ~PostThrows(errorResponse, targetOrigin)
               THEN Post(r, errorResponse, targetOrigin)
               ELSE [r EXCEPT !.uncaught = @ + 1]
  ELSE r

\* await provider.send(method, params) in a handler of the given closure
embedProviderSend(r, closure, requestData, response, method, params, onResolve, fallback) ==
  [r EXCEPT !.providerLog = Append(@, [method |-> method, params |-> params]),
            !.calls = Append(@, [request |-> requestData, response |-> response,
                                 method |-> method,
                                 onResolve |-> onResolve, fallback |-> fallback,
                                 closure |-> closure])]

\* postResponse(response), the last statement of the component's handleJsonRpcRequest
embedRespond(r, closure, requestData, response) ==
  embedPostResponse([r EXCEPT !.responses = @ \cup {[request |-> requestData,
                                                      response |-> response]}],
                    closure, response)

\* handleJsonRpcRequest of the component, up to its first await or to its end
embedHandleJsonRpcRequest(r0, closure, requestData) ==
  LET r == [r0 EXCEPT !.dispatched = Append(@, requestData)]
      id == Get(requestData, "id")
      method == Get(requestData, "method")
      params == Get(requestData, "params")
      response == [id |-> id, jsonrpc |-> Str("2.0")]
      caught(message) ==
        embedRespond(r, closure, requestData, WithError(response, -32000, message))
      send(m, p, onResolve, fallback) ==
        embedProviderSend(r, closure, requestData, response, m, p, onResolve, fallback)
  IN IF closure.provider = Null THEN caught("Provider not initialized")
     ELSE IF method \in {Str("eth_requestAccounts"), Str("enable")}
     THEN send("eth_requestAccounts", Arr(<<>>), "setAddress", "Failed to request accounts")
     ELSE IF method = Str("eth_accounts")
     THEN embedRespond(r, closure, requestData,
            WithResult(response, IF Truthy(closure.address) THEN Arr(<<closure.address>>)
                                 ELSE Arr(<<>>)))
     ELSE IF method = Str("eth_chainId")
     THEN send("eth_chainId", Arr(<<>>), "value", "Failed to get chain ID")
     ELSE IF method = Str("wallet_switchEthereumChain")
     THEN IF ~Truthy(params) \/ ~IsArray(params) \/ ~Truthy(Get(At(params, 0), "chainId"))
          THEN caught("Invalid parameters for wallet_switchEthereumChain")
          ELSE send("wallet_switchEthereumChain", Arr(<<Get(At(params, 0), "chainId")>>),
                    "null", "Failed to switch chain")
     ELSE IF method = Str("eth_sendTransaction")
     THEN IF ~Truthy(params) \/ ~IsArray(params) \/ ~Truthy(At(params, 0))
          THEN caught("Invalid parameters for eth_sendTransaction")
          ELSE send("eth_sendTransaction", Arr(<<At(params, 0)>>), "value",
                    "Failed to send transaction")
     ELSE IF method = Str("personal_sign")
     THEN IF ~Truthy(params) \/ ~IsArray(params) \/ ~IsString(At(params, 0))
          THEN caught("Invalid parameters for personal_sign")
          ELSE send("personal_sign", Arr(<<At(params, 0), closure.address>>), "value",
                    "Failed to sign message")
     ELSE embedRespond(r, closure, requestData,
            WithError(response, -32601, "Method not found: " \o ToStr(method)))

\* the rest of the component's handleJsonRpcRequest once the promise settles
embedResume(r, call, outcome) ==
  IF outcome.ok
  THEN embedRespond(r, call.closure, call.request,
         WithResult(call.response, IF call.onResolve = "null" THEN Null ELSE outcome.value))
  ELSE embedRespond(r, call.closure, call.request,
         WithError(call.response, -32000,
                   IF outcome.message # "" THEN outcome.message ELSE call.fallback))

\* the chunk branch of the component's handleMessage
embedHandleChunk(r0, closure, data) ==
  LET key == data.id.str
      chunks == ArraySet(IF key \in DOMAIN r0.chunkedMessages THEN r0.chunkedMessages[key]
                         ELSE <<>>,
                         data.chunk.num, data)
      r1 == [r0 EXCEPT !.chunkedMessages = MapSet(@, key, chunks)]
      r2 == IF key \in DOMAIN r1.messageTimeout
            THEN [clearTimeout(r1, r1.messageTimeout[key])
                    EXCEPT !.messageTimeout = MapDelete(@, key)]
            ELSE r1
      timeout == FreshHandle(r1)
      r3 == [r2 EXCEPT !.timers = MapSet(@, timeout, key),
                       !.messageTimeout = MapSet(@, key, timeout)]
  IN IF Len(chunks) = data.total.num
     THEN LET r4 == [clearTimeout(r3, timeout) EXCEPT !.messageTimeout = MapDelete(@, key)]
              assembledData == assembleChunks(chunks)
              r5 == [r4 EXCEPT !.chunkedMessages = MapDelete(@, key),
                               !.assembled = Append(@, chunks)]
          IN embedHandleJsonRpcRequest(r5, closure, assembledData)
     ELSE r3

\* the component's handleMessage, as created by the render that saw closure
embedHandleMessage(r, closure, event) ==
  IF ~embedOriginAllowed(event.origin, closure.iframeOrigin) THEN r
  ELSE IF isChunkedMessage(event.data) THEN embedHandleChunk(r, closure, event.data)
  ELSE IF isJsonRpcRequest(event.data) THEN embedHandleJsonRpcRequest(r, closure, event.data)
  ELSE r

\* the callback of an expiry timer of the component
embedTimeoutCallback(r, key) ==
  [r EXCEPT !.chunkedMessages = MapDelete(@, key),
            !.messageTimeout = MapDelete(@, key)]

\* the cleanups run at unmount: the listener is removed and the timers the
\* messageTimeout ref names are cleared; the iframe element is gone
unmount(r) ==
  [r EXCEPT !.iframe = Null,
            !.timers = [h \in DOMAIN r.timers \ Range(r.messageTimeout) |-> r.timers[h]],
            !.messageTimeout = EmptyMap]

EmbedWorlds ==
  { World("production", eth, ExampleUrl, S) : eth \in BOOLEAN, S \in PlainScenarios } \cup
  { World("production", TRUE, ExampleUrl, ChunkScenario) } \cup
  { World("production", TRUE, ExampleUrl,
          From(ExampleCom, {Request(Num(1), "eth_requestAccounts"),
                            Request(Num(2), "eth_accounts")})) } \cup
  { World(env, TRUE, url, S) : env \in Envs, url \in GateUrls, S \in GateScenarios }

\* The state after the component has mounted: the first render saw every
\* state value at null, and its effects have set the provider and the
\* iframe origin and registered the handleMessage of that render.
InitEmbed ==
  /\ \E w \in EmbedWorlds :
       /\ nodeEnv = w.nodeEnv
       /\ ethereum = w.ethereum
       /\ iframeUrl = w.iframeUrl
       /\ inflight = w.inflight
       /\ provider = IF w.ethereum THEN BrowserProvider ELSE Null
       /\ iframeOrigin = UrlOrigin(w.iframeUrl)
       /\ iframe = [src |-> [url |-> w.iframeUrl, token |-> Str("0xD6E4"), chainId |-> Undefined],
                    contentWindow |-> TRUE]
  /\ address = Null
  /\ rendered = Closure(Null, Null, Null)
  /\ registered = Closure(Null, Null, Null)
  /\ messageHandlers = {}
  /\ chunkedMessages = EmptyMap
  /\ messageTimeout = EmptyMap
  /\ timers = EmptyMap
  /\ listeners = 1
  /\ calls = <<>>
  /\ posted = <<>>
  /\ dispatched = <<>>
  /\ assembled = <<>>
  /\ providerLog = <<>>
  /\ responses = {}
  /\ CodecIdle
  /\ uncaught = 0
  /\ delivered = {}
  /\ expired = {}
  /\ inits = 0
  /\ disconnects = 0

embedRelayVars == <<provider, iframe, iframeUrl, messageHandlers, chunkedMessages,
                    messageTimeout, timers, calls, posted, dispatched, assembled,
                    providerLog, responses, uncaught>>

\* React renders the component again after a state value has changed
Render ==
  /\ disconnects = 0
  /\ rendered # Closure(iframeOrigin, provider, address)
  /\ rendered' = Closure(iframeOrigin, provider, address)
  /\ UNCHANGED <<codecVars, embedRelayVars, nodeEnv, ethereum, listeners, inflight, delivered, expired,
                 inits, disconnects, iframeOrigin, address, registered>>

\* the listener effect of the last render: the previous handleMessage is
\* removed and the new one registered
ListenerEffect ==
  /\ disconnects = 0
  /\ registered # rendered
  /\ registered' = rendered
  /\ UNCHANGED <<codecVars, embedRelayVars, nodeEnv, ethereum, listeners, inflight, delivered, expired,
                 inits, disconnects, iframeOrigin, address, rendered>>

Unmount ==
  /\ disconnects < MaxDisconnects
  /\ Becomes(unmount(Relay))
  /\ listeners' = 0
  /\ disconnects' = disconnects + 1
  /\ UNCHANGED <<codecVars, embedVars, nodeEnv, ethereum, inflight, delivered, expired, inits>>

EmbedDeliver(event) ==
  /\ event \in inflight
  /\ inflight' = inflight \ {event}
  /\ Becomes(IF listeners = 0 THEN Relay ELSE embedHandleMessage(Relay, registered, event))
  /\ delivered' = delivered \cup {[event |-> event, listeners |-> listeners,
                                     disconnects |-> disconnects,
                                     expected |-> registered.iframeOrigin,
                                     inOrder |-> InOrder(event)]}
  /\ UNCHANGED <<codecVars, embedVars, nodeEnv, ethereum, listeners, expired, inits, disconnects>>

EmbedTimerFire(h) ==
  /\ h \in DOMAIN timers
  /\ Becomes(embedTimeoutCallback([Relay EXCEPT !.timers = MapDelete(@, h)], timers[h]))
  /\ expired' = expired \cup {timers[h]}
  /\ UNCHANGED <<codecVars, embedVars, nodeEnv, ethereum, listeners, inflight, delivered, inits,
                 disconnects>>

\* a provider.send promise settles; after eth_requestAccounts the
\* continuation calls setAddress(accounts[0]) before it replies
EmbedSettle(i, outcome) ==
  /\ i \in 1..Len(calls)
  /\ outcome \in Outcomes(calls[i].method)
  /\ Becomes(embedResume(
               [Relay EXCEPT !.calls = SubSeq(calls, 1, i - 1) \o SubSeq(calls, i + 1, Len(calls))],
               calls[i], outcome))
  /\ address' = IF outcome.ok /\ calls[i].onResolve = "setAddress" /\ disconnects = 0
                THEN At(outcome.value, 0)
                ELSE address
  /\ UNCHANGED <<codecVars, iframeOrigin, rendered, registered, nodeEnv, ethereum, listeners, inflight,
                 delivered, expired, inits, disconnects>>

NextEmbed ==
  \/ Render
  \/ ListenerEffect
  \/ Unmount
  \/ \E event \in inflight : EmbedDeliver(event)
  \/ \E h \in DOMAIN timers : EmbedTimerFire(h)
  \/ \E i \in 1..Len(calls) : \E outcome \in AllOutcomes : EmbedSettle(i, outcome)

SpecEmbed == InitEmbed /\ [][NextEmbed]_vars

\* C6: of the delivered requests, one from https://example.com is let through
\* when https://www.example.com is expected and the other way round; one from
\* https://evil.com is not let through in production mode when
\* https://example.com is expected; one from http://localhost:5173 is let
\* through when https://example.com is expected in non-production mode only.
C6_GateCases ==
  \A d \in PlainDeliveries :
    LET o == d.event.origin
        x == d.expected
    IN /\ ({o, x} = {ExampleCom, WwwExampleCom} => Accepted(d))
       /\ (nodeEnv = "production" /\ o = EvilCom /\ x = ExampleCom => ~Accepted(d))
       /\ (o = Localhost5173 /\ x = ExampleCom => (Accepted(d) <=> nodeEnv # "production"))

\* C27: an eth_accounts request that the component handles after an
\* eth_requestAccounts request was answered with the accounts [a, ...] is
\* answered with the result [a].
C27_AccountsAnsweredFromCachedAddress ==
  [][\A e \in inflight :
       ( /\ DeliverStep(e)
         /\ isJsonRpcRequest(e.data)
         /\ Get(e.data, "method") = Str("eth_accounts")
         /\ listeners >= 1
         /\ embedOriginAllowed(e.origin, registered.iframeOrigin) )
       => \A x \in responses :
            ( /\ Get(x.request, "method") \in {Str("eth_requestAccounts"), Str("enable")}
              /\ Truthy(At(Get(x.response, "result"), 0)) )
            => \E y \in responses' :
                 /\ y.request = e.data
                 /\ Get(y.response, "result") = Arr(<<At(x.response.result, 0)>>)]_vars

\* C28: every personal_sign call made to the provider has a signer address,
\* a non-empty string, as its second parameter.
C28_PersonalSignForwardsSigner ==
  \A k \in 1..Len(providerLog) :
    providerLog[k].method = "personal_sign" =>
      LET signer == At(providerLog[k].params, 1)
      IN IsString(signer) /\ Truthy(signer)

====
